---- MODULE Spec2Model ----
(***************************************************************************)
(* sharp-gpu: the GPU resource / pipeline execution engine.                *)
(*                                                                         *)
(* The model follows the WebGL wrapper (GLTexture, GLBuffer, GLFramebuffer,*)
(* GLProgram, GLRenderer), the operations (Copy, Resize, Blur, Color) and  *)
(* the ping-pong render loop of SharpGPU.                                  *)
(*                                                                         *)
(* Numbers.  JavaScript numbers that can be fractional (texture sizes      *)
(* computed by computeSize) are exact rationals <<n, d>> with d > 0 in     *)
(* lowest terms.  Values that cross into WebGL / the DOM as GLsizei or     *)
(* unsigned long are truncated with ToLong.  Texel values are RGBA bytes   *)
(* 0..255, the storage type ("uint8") of every texture of the engine.      *)
(*                                                                         *)
(* Images.  An image is described by the colour px of its texels and by    *)
(* the list fx of spatial filter passes (blur) applied to it; two images   *)
(* are identical when size, px and fx agree.                               *)
(***************************************************************************)
EXTENDS Integers, Sequences, FiniteSets, TLC

(* ------------------------------ bounds --------------------------------- *)
MaxOps == 3
MaxRenders == 2

(* ----------------------------- rationals ------------------------------- *)
RECURSIVE Gcd(_, _)
Gcd(a, b) == IF b = 0 THEN a ELSE Gcd(b, a % b)

Abs(x) == IF x < 0 THEN -x ELSE x

\* a / b of two JavaScript numbers that hold integers, as an exact rational.
Frac(n, d) ==
  LET s == IF d < 0 THEN -1 ELSE 1
      g == Gcd(Abs(n), Abs(d))
  IN  IF n = 0 THEN <<0, 1>> ELSE <<(s * n) \div g, (s * d) \div g>>

R(k) == <<k, 1>>
RDiv(a, b) == Frac(a[1] * b[2], a[2] * b[1])
RMul(a, b) == Frac(a[1] * b[1], a[2] * b[2])
RAdd(a, b) == Frac(a[1] * b[2] + b[1] * a[2], a[2] * b[2])
RSub(a, b) == Frac(a[1] * b[2] - b[1] * a[2], a[2] * b[2])
RLess(a, b) == a[1] * b[2] < b[1] * a[2]
RMin(a, b) == IF RLess(b, a) THEN b ELSE a
RMax(a, b) == IF RLess(a, b) THEN b ELSE a
RIsZero(a) == a[1] = 0
RLeqZero(a) == a[1] <= 0

\* WebIDL conversion of a number to GLsizei / long / unsigned long:
\* truncation toward zero.
ToLong(a) == IF a[1] >= 0 THEN a[1] \div a[2] ELSE -((-a[1]) \div a[2])

\* GLSL clamp(x, 0.0, 1.0) and mod(x, 1.0) = x - floor(x)
RClamp01(a) == RMax(R(0), RMin(R(1), a))
RMod1(a) == Frac(a[1] % a[2], a[2])

\* GLSL pow(x, n) for a whole exponent n >= 0
RECURSIVE RPow(_, _)
RPow(a, n) == IF n = 0 THEN R(1) ELSE RMul(a, RPow(a, n - 1))

(* ------------------------------- texels -------------------------------- *)
Zero4 == <<0, 0, 0, 0>>
Red == <<255, 0, 0, 255>>
Green == <<0, 255, 0, 255>>
Grey == <<128, 128, 128, 255>>

\* Colours handed to SharpGPU.color.
Colors == {Green}

\* Decoded images the caller can load: [width, height, px].
Images ==
  << [width |-> 2, height |-> 2, px |-> Red],
     [width |-> 3, height |-> 2, px |-> Grey] >>

NoFx == << >>


(* ------------------------------- state --------------------------------- *)
VARIABLES
  operations,    \* SharpGPU.operations (PipelineOperation.operations in
                 \* SpecPipeline): the ordered operation list
  textures,      \* every GLTexture created, indexed by handle
  framebuffers,  \* every GLFramebuffer created, indexed by handle
  buffers,       \* every GLBuffer created, indexed by handle
  programs,      \* GLRenderer.programs: definition -> GLProgram
  canvas,        \* the renderer's canvas (the presentation surface)
  gl,            \* the bind state of the WebGL context
  trace,         \* the calls issued by the current / latest top-level call
  render,        \* position of SharpGPU.render and its locals src, dst
  direct,        \* the latest call a caller made itself: an
                 \* operation.run(ctx), or a call on a resource it holds
  pipeline,      \* PipelineOperation.src and .dst (0: not created yet),
                 \* the position of PipelineOperation.run, and the
                 \* number of dispose() calls
  clone,         \* the pipeline clone() returned: its renderer and its
                 \* operations array
  scopes,        \* the calls of GLFramebuffer.use and GLProgram.draw whose
                 \* callback is running: a stack, innermost last, and the
                 \* error in flight between two of them
  lutCommand     \* the closure of createLUTCommand: lastLut and the data
                 \* of lutTexture, and the LUT objects a caller holds

vars == <<operations, textures, framebuffers, buffers, programs, canvas, gl,
          trace, render, direct, pipeline, clone, scopes, lutCommand>>

\* The GPU side of the state, threaded through the helpers below.  error is
\* the message of the exception in flight ("" when there is none); halfUp
\* is the way this implementation rounds a colour half way between two
\* bytes when it stores it.
Machine ==
  [textures |-> textures, framebuffers |-> framebuffers, buffers |-> buffers,
   programs |-> programs, canvas |-> canvas, gl |-> gl, trace |-> trace,
   error |-> "", halfUp |-> TRUE]

Commit(m) ==
  /\ textures' = m.textures
  /\ framebuffers' = m.framebuffers
  /\ buffers' = m.buffers
  /\ programs' = m.programs
  /\ canvas' = m.canvas
  /\ gl' = m.gl
  /\ trace' = m.trace

Ok(m) == m.error = ""
Throw(m, msg) == [m EXCEPT !.error = msg]
Log(m, e) == [m EXCEPT !.trace = Append(@, e)]

TextureUnits == 0 .. 1

(* ------------------------------ GLTexture ------------------------------ *)
\* Values of GLTextureSource: null, a decoded image, an ArrayBufferView.
NoData == [kind |-> "none", width |-> 0, height |-> 0, px |-> Zero4]
ImageData(k) ==
  [kind |-> "image", width |-> Images[k].width, height |-> Images[k].height,
   px |-> Images[k].px]
BytesData(px) == [kind |-> "bytes", width |-> 0, height |-> 0, px |-> px]

\* a ?? b on texture sources
Coalesce(a, b) == IF a.kind = "none" THEN b ELSE a

\* GLTexture.update without its finally block: the texture stays bound and
\* the flip-Y flag stays as the upload set it.
TextureUpdateBound(m, t, p) ==
  LET self == m.textures[t]
      width == IF p.hasWidth THEN p.width ELSE self.width
      height == IF p.hasHeight THEN p.height ELSE self.height
      flipY == IF "hasFlipY" \in DOMAIN p /\ p.hasFlipY THEN p.flipY
               ELSE self.flipY
      data == Coalesce(p.data, Coalesce(self.data, NoData))
      storage == IF data.kind = "image"
                 THEN <<data.width, data.height>>
                 ELSE <<ToLong(width), ToLong(height)>>
  IN  IF RLeqZero(width) \/ RLeqZero(height)
      THEN Throw(m, "Texture width and height must be positive")
      ELSE Log([m EXCEPT !.textures[t] =
                           [self EXCEPT !.width = width, !.height = height,
                                        !.flipY = flipY, !.data = data,
                                        !.storage = storage, !.px = data.px,
                                        !.fx = NoFx],
                         !.gl.textureBinding[m.gl.activeTexture] = t,
                         !.gl.unpackFlipY = flipY],
               [call |-> "texImage2D", texture |-> t, source |-> data.kind,
                width |-> storage[1], height |-> storage[2]])

\* GLTexture.update.  p = [hasWidth, width, hasHeight, height, data], and
\* [hasFlipY, flipY] when the caller gives params.flipY; the filter / wrap /
\* format parameters do not change in this engine.
TextureUpdate(m, t, p) ==
  LET self == m.textures[t]
      width == IF p.hasWidth THEN p.width ELSE self.width
      height == IF p.hasHeight THEN p.height ELSE self.height
      flipY == IF "hasFlipY" \in DOMAIN p /\ p.hasFlipY THEN p.flipY
               ELSE self.flipY
      data == Coalesce(p.data, Coalesce(self.data, NoData))
      unit == m.gl.activeTexture
      previousBinding == m.gl.textureBinding[unit]
      previousFlipY == m.gl.unpackFlipY
      bound == [m.gl EXCEPT !.textureBinding[unit] = t,
                            !.unpackFlipY = flipY]
      restored == [bound EXCEPT !.textureBinding[unit] = previousBinding,
                                !.unpackFlipY = previousFlipY]
      storage == IF data.kind = "image"
                 THEN <<data.width, data.height>>
                 ELSE <<ToLong(width), ToLong(height)>>
      uploaded == [self EXCEPT !.width = width, !.height = height,
                               !.flipY = flipY,
                               !.data = data, !.storage = storage,
                               !.px = data.px, !.fx = NoFx]
  IN  IF RLeqZero(width) \/ RLeqZero(height)
      THEN Throw(m, "Texture width and height must be positive")
      ELSE Log([m EXCEPT !.textures[t] = uploaded, !.gl = restored],
               [call |-> "texImage2D", texture |-> t, source |-> data.kind,
                width |-> storage[1], height |-> storage[2]])

\* new GLTexture(gl, {width, height, data, flipY}); the handle is
\* Len(m.textures) + 1.  constructed tells that the constructor returned:
\* when update throws, nobody gets the object it was building.
TextureNew(m, width, height, data, flipY) ==
  LET t == Len(m.textures) + 1
      fresh == [width |-> width, height |-> height, data |-> data,
                flipY |-> flipY, storage |-> <<0, 0>>, px |-> Zero4,
                fx |-> NoFx, deletes |-> 0, constructed |-> FALSE]
      created == [m EXCEPT !.textures = Append(@, fresh)]
      updated == TextureUpdate(created, t,
                   [hasWidth |-> TRUE, width |-> width, hasHeight |-> TRUE,
                    height |-> height, data |-> data])
  IN  [updated EXCEPT !.textures[t].constructed = Ok(updated)]

\* GLTexture.resize with the new size recorded ahead of the check.
TextureResizeRecordFirst(m, t, width, height) ==
  LET recorded == [m EXCEPT !.textures[t].width = width,
                            !.textures[t].height = height]
  IN  IF RLeqZero(width) \/ RLeqZero(height)
      THEN Throw(recorded, "Texture width and height must be positive")
      ELSE TextureUpdate(recorded, t,
             [hasWidth |-> TRUE, width |-> width, hasHeight |-> TRUE,
              height |-> height, data |-> NoData])

\* GLTexture.resize
TextureResize(m, t, width, height) ==
  IF RLeqZero(width) \/ RLeqZero(height)
  THEN Throw(m, "Texture width and height must be positive")
  ELSE TextureUpdate(
         [m EXCEPT !.textures[t].width = width, !.textures[t].height = height],
         t,
         [hasWidth |-> TRUE, width |-> width, hasHeight |-> TRUE,
          height |-> height, data |-> NoData])

\* GLTexture.dispose; deletes counts the gl.deleteTexture calls issued for
\* the handle.
TextureDispose(m, t) ==
  Log([m EXCEPT !.textures[t].deletes = @ + 1],
      [call |-> "deleteTexture", texture |-> t])

\* GLTexture.bind
TextureBind(m, t, unit) ==
  [m EXCEPT !.gl.activeTexture = unit, !.gl.textureBinding[unit] = t]

(* ------------------------------- GLBuffer ------------------------------ *)
Quad == <<-1, -1, 1, -1, -1, 1, 1, 1>>

QuadIndices == <<0, 1, 2, 3>>

\* GLBuffer.use up to the call of fn: gl.bindBuffer(target, handle).
BufferEnter(m, b) == [m EXCEPT !.gl.bufferBinding[m.buffers[b].target] = b]

\* A use() that leaves its buffer bound.
BufferLeaveBound(m, b, previous) == m

\* The finally block of GLBuffer.use: gl.bindBuffer(target, previous),
\* whether fn returned or threw.
BufferLeave(m, b, previous) ==
  [m EXCEPT !.gl.bufferBinding[m.buffers[b].target] = previous]

\* GLBuffer.use around gl.bufferData, as called by GLBuffer.update.
BufferUpdate(m, b, data) ==
  BufferLeave([BufferEnter(m, b) EXCEPT !.buffers[b].data = data], b,
              m.gl.bufferBinding[m.buffers[b].target])

\* new GLBuffer(gl, {target, usage, data}); the handle is Len(m.buffers) + 1.
BufferNew(m, target, usage, data) ==
  LET b == Len(m.buffers) + 1
      created == [m EXCEPT !.buffers = Append(@,
                    [target |-> target, usage |-> usage, data |-> << >>,
                     deletes |-> 0])]
  IN  IF data # << >> THEN BufferUpdate(created, b, data) ELSE created

\* GLBuffer.dispose
BufferDispose(m, b) ==
  Log([m EXCEPT !.buffers[b].deletes = @ + 1],
      [call |-> "deleteBuffer", buffer |-> b])

(* ----------------------------- GLFramebuffer --------------------------- *)
FramebufferSize(m, f) ==
  [width |-> m.textures[m.framebuffers[f].texture].width,
   height |-> m.textures[m.framebuffers[f].texture].height]

\* A use() that binds the framebuffer and leaves the viewport as it was.
FramebufferEnterStale(m, f) ==
  Log([m EXCEPT !.gl.framebufferBinding = f],
      [call |-> "bindFramebuffer", framebuffer |-> f])

\* The first half of GLFramebuffer.use: bind and set the viewport.
FramebufferEnter(m, f) ==
  LET size == FramebufferSize(m, f)
  IN  Log([m EXCEPT !.gl.framebufferBinding = f,
                    !.gl.viewport = <<0, 0, ToLong(size.width),
                                      ToLong(size.height)>>],
          [call |-> "bindFramebuffer", framebuffer |-> f])

\* A use() that ends on the default surface instead of the saved binding.
FramebufferLeaveDefault(m, previous, previousViewport) ==
  Log([m EXCEPT !.gl.framebufferBinding = 0,
                !.gl.viewport = previousViewport],
      [call |-> "bindFramebuffer", framebuffer |-> 0])

\* The finally block of GLFramebuffer.use: it runs whether or not fn threw.
FramebufferLeave(m, previous, previousViewport) ==
  Log([m EXCEPT !.gl.framebufferBinding = previous,
                !.gl.viewport = previousViewport],
      [call |-> "bindFramebuffer", framebuffer |-> previous])

\* GLFramebuffer.use(fn) called in state m: ran is the state fn left,
\* started in FramebufferEnter(m, f).
FramebufferUse(m, f, ran) ==
  FramebufferLeave(ran, m.gl.framebufferBinding, m.gl.viewport)

\* new GLFramebuffer(gl, {width, height, texture}); texture = 0 when the
\* config has none.  The handle is Len(m.framebuffers) + 1.  owner names the
\* call site that asked for the framebuffer, config keeps config.texture.
FramebufferNew(m, width, height, texture, owner) ==
  LET f == Len(m.framebuffers) + 1
      ownsTexture == texture = 0
      handle ==
        Log([m EXCEPT !.framebuffers = Append(@,
               [texture |-> texture, ownsTexture |-> ownsTexture,
                attached |-> FALSE, deletes |-> 0, owner |-> owner,
                config |-> texture])],
            [call |-> "createFramebuffer", framebuffer |-> f])
      own == TextureNew(handle, width, height, NoData, FALSE)
      withTexture ==
        IF ownsTexture
        THEN [own EXCEPT !.framebuffers[f].texture = Len(m.textures) + 1]
        ELSE handle
  IN  IF ~Ok(withTexture) THEN withTexture
      ELSE FramebufferUse(withTexture, f,
             [FramebufferEnter(withTexture, f)
                EXCEPT !.framebuffers[f].attached = TRUE])

\* GLFramebuffer.resize
FramebufferResize(m, f, size) ==
  TextureResize(m, m.framebuffers[f].texture, size.width, size.height)

\* GLFramebuffer.dispose that disposes the texture whoever created it.
FramebufferDisposeTexture(m, f) ==
  Log([TextureDispose(m, m.framebuffers[f].texture)
         EXCEPT !.framebuffers[f].deletes = @ + 1],
      [call |-> "deleteFramebuffer", framebuffer |-> f])

\* GLFramebuffer.dispose
FramebufferDispose(m, f) ==
  LET textured == IF m.framebuffers[f].ownsTexture
                  THEN TextureDispose(m, m.framebuffers[f].texture)
                  ELSE m
  IN  Log([textured EXCEPT !.framebuffers[f].deletes = @ + 1],
          [call |-> "deleteFramebuffer", framebuffer |-> f])

(* ------------------------------ programs ------------------------------- *)
\* The program definitions: COPY and COLOR of programs.ts, blur of blur.ts.
\* uniforms lists the declared uniforms in declaration order.
NoBlend == [enabled |-> FALSE, srcFactor |-> "", dstFactor |-> "",
            equation |-> ""]

COPY == [name |-> "COPY", uniforms |-> <<"source">>, blend |-> NoBlend]

COLOR ==
  [name |-> "COLOR", uniforms |-> <<"color">>,
   blend |-> [enabled |-> TRUE, srcFactor |-> "srcColor",
              dstFactor |-> "oneMinusSrcColor", equation |-> "add"]]

blur ==
  [name |-> "blur",
   uniforms |-> <<"src", "width", "height", "direction", "radius">>,
   blend |-> NoBlend]

\* modulateProgram, linearProgram and gammaProgram of the colour operations.
modulate ==
  [name |-> "modulate",
   uniforms |-> <<"source", "brightness", "saturation", "hue", "lightness",
                  "tint">>,
   blend |-> NoBlend]

linear ==
  [name |-> "linear", uniforms |-> <<"source", "multiply", "add">>,
   blend |-> NoBlend]

gamma ==
  [name |-> "gamma", uniforms |-> <<"source", "exponent">>,
   blend |-> NoBlend]

Definitions == {COPY, COLOR, blur, modulate, linear, gamma}

\* Props handed to GLProgram.draw; source = 0 stands for undefined.
Props(source, color, radius, direction) ==
  [source |-> source, color |-> color, radius |-> radius,
   direction |-> direction]

\* The value a declared uniform resolves to for the given props.
UniformValue(m, def, name, props) ==
  CASE name \in {"source", "src"} ->
         IF props.source = 0 THEN [type |-> "undefined"]
         ELSE [type |-> "texture", texture |-> props.source]
    [] name = "mask" ->
         IF props.mask = 0 THEN [type |-> "undefined"]
         ELSE [type |-> "texture", texture |-> props.mask]
    [] name = "amount" -> [type |-> "number", value |-> props.amount]
    [] name = "color" -> [type |-> "array", value |-> props.color]
    [] name = "width" ->
         [type |-> "number", value |-> m.textures[props.source].width]
    [] name = "height" ->
         [type |-> "number", value |-> m.textures[props.source].height]
    [] name = "direction" -> [type |-> "array", value |-> props.direction]
    [] name = "radius" -> [type |-> "number", value |-> R(props.radius)]
    [] name \in {"brightness", "saturation", "hue", "lightness"} ->
         [type |-> "number", value |-> props[name]]
    [] name \in {"tint", "multiply", "add", "exponent"} ->
         [type |-> "array", value |-> props[name]]

\* The value of a uniform of a linked program that was never written: 0
\* for a sampler and for a float, no component for a vector.
UniformDefault(name) ==
  CASE name \in {"source", "src", "mask"} -> 0
    [] name \in {"amount", "width", "height", "radius", "brightness",
                 "saturation", "hue", "lightness"} -> R(0)
    [] OTHER -> << >>

\* mapBlendFactor: the GL blend factor of a factor name.
mapBlendFactor(factor) ==
  CASE factor = "zero" -> "ZERO"
    [] factor = "one" -> "ONE"
    [] factor = "src-color" -> "SRC_COLOR"
    [] factor = "one-minus-src-color" -> "ONE_MINUS_SRC_COLOR"
    [] factor = "dst-color" -> "DST_COLOR"
    [] factor = "one-minus-dst-color" -> "ONE_MINUS_DST_COLOR"
    [] factor = "src-alpha" -> "SRC_ALPHA"
    [] factor = "one-minus-src-alpha" -> "ONE_MINUS_SRC_ALPHA"
    [] factor = "dst-alpha" -> "DST_ALPHA"
    [] factor = "one-minus-dst-alpha" -> "ONE_MINUS_DST_ALPHA"
    [] OTHER -> "ONE"

\* mapBlendEquation
mapBlendEquation(equation) ==
  CASE equation = "subtract" -> "FUNC_SUBTRACT"
    [] equation = "reverse-subtract" -> "FUNC_REVERSE_SUBTRACT"
    [] OTHER -> "FUNC_ADD"

\* a ?? b on optional names ("" is undefined)
OrElse(a, b) == IF a = "" THEN b ELSE a

\* GLProgram.applyBlend
applyBlend(m, def) ==
  IF def.blend.enabled
  THEN [m EXCEPT !.gl.blend =
          [enabled |-> TRUE,
           src |-> mapBlendFactor(OrElse(def.blend.srcFactor, "one")),
           dst |-> mapBlendFactor(OrElse(def.blend.dstFactor, "zero")),
           equation |-> mapBlendEquation(OrElse(def.blend.equation, "add"))]]
  ELSE [m EXCEPT !.gl.blend.enabled = FALSE]

\* GLProgram.applyUniforms from the k-th declared uniform on, textureUnit
\* being the next free texture unit.
RECURSIVE applyUniformsOneUnit(_, _, _, _, _)
RECURSIVE applyUniformsFrom(_, _, _, _, _)
\* applyUniforms without textureUnit += 1.
applyUniformsOneUnit(m, def, props, k, textureUnit) ==
  IF k > Len(def.uniforms) \/ ~Ok(m) THEN m
  ELSE LET name == def.uniforms[k]
           value == UniformValue(m, def, name, props)
       IN  CASE value.type = "texture" ->
                  applyUniformsOneUnit(
                    [TextureBind(m, value.texture, textureUnit)
                       EXCEPT !.programs[def.name].uniformValues[name] =
                                textureUnit],
                    def, props, k + 1, textureUnit)
             [] value.type = "undefined" ->
                  Throw(m, "Unsupported uniform value")
             [] OTHER ->
                  applyUniformsOneUnit(
                    [m EXCEPT !.programs[def.name].uniformValues[name] =
                                value.value],
                    def, props, k + 1, textureUnit)

applyUniformsFrom(m, def, props, k, textureUnit) ==
  IF k > Len(def.uniforms) \/ ~Ok(m) THEN m
  ELSE LET name == def.uniforms[k]
           value == UniformValue(m, def, name, props)
       IN  CASE value.type = "texture" ->
                  applyUniformsFrom(
                    [TextureBind(m, value.texture, textureUnit)
                       EXCEPT !.programs[def.name].uniformValues[name] =
                                textureUnit],
                    def, props, k + 1, textureUnit + 1)
             [] value.type = "undefined" ->
                  Throw(m, "Unsupported uniform value")
             [] OTHER ->
                  applyUniformsFrom(
                    [m EXCEPT !.programs[def.name].uniformValues[name] =
                                value.value],
                    def, props, k + 1, textureUnit)

applyUniforms(m, def, props) == applyUniformsFrom(m, def, props, 1, 0)

\* writeAttribute via GLBuffer.use: the array-buffer binding is restored,
\* the vertex-attribute pointer of the location keeps the buffer.
writeAttribute(m, location, buffer) ==
  IF m.buffers[buffer].target # "array"
  THEN Throw(m, "Attribute buffers must use the 'array' target")
  ELSE BufferLeave([BufferEnter(m, buffer)
                      EXCEPT !.gl.attribPointer[location] = buffer],
                   buffer, m.gl.bufferBinding["array"])

\* The GLAttribute objects a caller holds, each {buffer, size: 2}: the
\* first two are different objects on the same buffer.  A program's
\* attribute cache holds the object, named by its place in this list.
CallerAttributes ==
  <<[buffer |-> 1], [buffer |-> 1], [buffer |-> 2], [buffer |-> 3]>>

\* The value the attribute "position" resolves to: the object of
\* defaultAttributes, named by its buffer, or for a definition with
\* attributes of its own the object its function (props) => props.position
\* returns.
AttributeValue(m, def, props) ==
  IF "attributes" \in DOMAIN def THEN props.position
  ELSE m.programs[def.name].position

\* attribute.buffer of an attribute value of a definition
AttributeBuffer(def, value) ==
  IF "attributes" \in DOMAIN def THEN CallerAttributes[value].buffer
  ELSE value

\* applyAttributes without the cache: every draw writes the attribute.
applyAttributesAlways(m, def, props) ==
  IF ~Ok(m) THEN m
  ELSE writeAttribute(m, 0, AttributeBuffer(def, AttributeValue(m, def, props)))

\* GLProgram.applyAttributes: every program declares the one attribute
\* "position", at location 0; attributeCache is the value last written
\* for it, 0 for none.
applyAttributes(m, def, props) ==
  LET value == AttributeValue(m, def, props)
      cached == m.programs[def.name].attributeCache
  IN  IF ~Ok(m) \/ cached = value THEN m
      ELSE LET written == writeAttribute(m, 0, AttributeBuffer(def, value))
           IN  IF ~Ok(written) THEN written
               ELSE [written EXCEPT
                       !.programs[def.name].attributeCache = value]

(* ------------------------- the fragment stage -------------------------- *)
Min(a, b) == IF a <= b THEN a ELSE b
Max(a, b) == IF a >= b THEN a ELSE b

MAX_RADIUS == 32

\* A texel channel as the float the sampler returns, and the byte the
\* framebuffer stores for a float in [0, 1]: the nearest one, a float half
\* way between two bytes going up or down with the implementation.
Channel(c) == Frac(c, 255)
ToByte(v, halfUp) ==
  LET n == v[1] * 255
      q == n \div v[2]
      r == n % v[2]
  IN  IF 2 * r > v[2] \/ (2 * r = v[2] /\ halfUp) THEN q + 1 ELSE q

\* rgb2hsl with the value max(r, g, b) in the place of the lightness.
rgb2hslValue(c) ==
  LET maxc == RMax(RMax(c[1], c[2]), c[3])
      minc == RMin(RMin(c[1], c[2]), c[3])
  IN  IF maxc # minc THEN <<R(0), R(1), maxc>> ELSE <<R(0), R(0), maxc>>

\* rgb2hsl of the modulate shader: <<h, s, l>> of the colour c.
rgb2hsl(c) ==
  LET maxc == RMax(RMax(c[1], c[2]), c[3])
      minc == RMin(RMin(c[1], c[2]), c[3])
      l == RMul(RAdd(maxc, minc), Frac(1, 2))
      d == RSub(maxc, minc)
      s == IF RLess(Frac(1, 2), l)
           THEN RDiv(d, RSub(RSub(R(2), maxc), minc))
           ELSE RDiv(d, RAdd(maxc, minc))
      h == IF maxc = c[1]
           THEN RAdd(RDiv(RSub(c[2], c[3]), d),
                     IF RLess(c[2], c[3]) THEN R(6) ELSE R(0))
           ELSE IF maxc = c[2]
           THEN RAdd(RDiv(RSub(c[3], c[1]), d), R(2))
           ELSE RAdd(RDiv(RSub(c[1], c[2]), d), R(4))
  IN  IF maxc # minc THEN <<RDiv(h, R(6)), s, l>> ELSE <<R(0), R(0), l>>

\* hue2rgb of the modulate shader
hue2rgb(p, q, t0) ==
  LET t1 == IF RLess(t0, R(0)) THEN RAdd(t0, R(1)) ELSE t0
      t == IF RLess(R(1), t1) THEN RSub(t1, R(1)) ELSE t1
  IN  IF RLess(t, Frac(1, 6))
      THEN RAdd(p, RMul(RMul(RSub(q, p), R(6)), t))
      ELSE IF RLess(t, Frac(1, 2)) THEN q
      ELSE IF RLess(t, Frac(2, 3))
      THEN RAdd(p, RMul(RMul(RSub(q, p), RSub(Frac(2, 3), t)), R(6)))
      ELSE p

\* hsl2rgb of the modulate shader
hsl2rgb(hsl) ==
  LET h == hsl[1]
      s == hsl[2]
      l == hsl[3]
      q == IF RLess(l, Frac(1, 2)) THEN RMul(l, RAdd(R(1), s))
           ELSE RSub(RAdd(l, s), RMul(l, s))
      p == RSub(RMul(R(2), l), q)
  IN  IF RIsZero(s) THEN <<l, l, l>>
      ELSE <<hue2rgb(p, q, RAdd(h, Frac(1, 3))), hue2rgb(p, q, h),
             hue2rgb(p, q, RSub(h, Frac(1, 3)))>>

\* main() of the modulate shader for the texel px, u the uniform values:
\* hsl and rgb are the locals of main(), each computed once.
modulateMain(px, u, halfUp) ==
  LET adjusted(hsl) ==
        hsl2rgb(<<RMod1(RAdd(hsl[1], RDiv(u["hue"], R(360)))),
                  RMul(hsl[2], u["saturation"]),
                  RClamp01(RAdd(hsl[3], u["lightness"]))>>)
      fragColor(rgb) ==
        [i \in 1 .. 4 |->
           IF i = 4 THEN px[4]
           ELSE ToByte(RClamp01(RMul(RMul(rgb[i], u["brightness"]),
                                     u["tint"][i])), halfUp)]
  IN  CHOOSE color \in
        { fragColor(rgb) :
            rgb \in { adjusted(hsl) :
                        hsl \in { rgb2hsl(<<Channel(px[1]), Channel(px[2]),
                                            Channel(px[3])>>) } } } : TRUE

\* main() of the linear shader
linearMain(px, u, halfUp) ==
  [i \in 1 .. 4 |->
     ToByte(RClamp01(RAdd(RMul(Channel(px[i]), u["multiply"][i]),
                          u["add"][i])), halfUp)]

\* main() of the gamma shader; the exponents are whole numbers here.
gammaMain(px, u, halfUp) ==
  [i \in 1 .. 4 |->
     IF i = 4 THEN px[4]
     ELSE ToByte(RClamp01(RPow(RMax(Channel(px[i]), R(0)),
                               ToLong(u["exponent"][i]))), halfUp)]

\* The image a program's fragment shader produces over the full quad, from
\* the uniform values last written to the program and the texture units.
FragmentOutput(m, def) ==
  LET u == m.programs[def.name].uniformValues
  IN  CASE def.name = "COPY" ->
             LET t == m.gl.textureBinding[u["source"]]
             IN  [px |-> m.textures[t].px, fx |-> m.textures[t].fx,
                  source |-> t]
        [] def.name = "COLOR" ->
             [px |-> u["color"], fx |-> NoFx, source |-> 0]
        [] def.name = "blur" ->
             LET t == m.gl.textureBinding[u["src"]]
                 radiusInt == Min(ToLong(u["radius"]), MAX_RADIUS)
             IN  [px |-> m.textures[t].px,
                  fx |-> IF radiusInt = 0 THEN m.textures[t].fx
                         ELSE Append(m.textures[t].fx,
                                     <<radiusInt, u["direction"]>>),
                  source |-> t]
        [] def.name = "modulate" ->
             LET t == m.gl.textureBinding[u["source"]]
             IN  [px |-> modulateMain(m.textures[t].px, u, m.halfUp),
                  fx |-> m.textures[t].fx, source |-> t]
        [] def.name = "linear" ->
             LET t == m.gl.textureBinding[u["source"]]
             IN  [px |-> linearMain(m.textures[t].px, u, m.halfUp),
                  fx |-> m.textures[t].fx, source |-> t]
        [] def.name = "gamma" ->
             LET t == m.gl.textureBinding[u["source"]]
             IN  [px |-> gammaMain(m.textures[t].px, u, m.halfUp),
                  fx |-> m.textures[t].fx, source |-> t]
        [] OTHER ->
             \* a caller's shader: here one that writes transparent black
             [px |-> Zero4, fx |-> NoFx, source |-> 0]

\* The weight (0..255 for 0.0..1.0) of a GL blend factor on channel i.
FactorWeight(factor, s, d, i) ==
  CASE factor = "ZERO" -> 0
    [] factor = "ONE" -> 255
    [] factor = "SRC_COLOR" -> s[i]
    [] factor = "ONE_MINUS_SRC_COLOR" -> 255 - s[i]
    [] factor = "DST_COLOR" -> d[i]
    [] factor = "ONE_MINUS_DST_COLOR" -> 255 - d[i]
    [] factor = "SRC_ALPHA" -> s[4]
    [] factor = "ONE_MINUS_SRC_ALPHA" -> 255 - s[4]
    [] factor = "DST_ALPHA" -> d[4]
    [] factor = "ONE_MINUS_DST_ALPHA" -> 255 - d[4]

Clamp255(x) == Max(0, Min(255, x))

\* Division by 255 rounded to the nearest byte.
Unorm(x) == IF x >= 0 THEN (x + 127) \div 255 ELSE -((127 - x) \div 255)

\* The GL blend stage: the texel written for source colour s over
\* destination colour d under blend state b.
BlendTexel(b, s, d) ==
  IF ~b.enabled THEN s
  ELSE [i \in 1 .. 4 |->
          LET sw == s[i] * FactorWeight(b.src, s, d, i)
              dw == d[i] * FactorWeight(b.dst, s, d, i)
          IN  Clamp255(Unorm(
                CASE b.equation = "FUNC_ADD" -> sw + dw
                  [] b.equation = "FUNC_SUBTRACT" -> sw - dw
                  [] b.equation = "FUNC_REVERSE_SUBTRACT" -> dw - sw))]

BlendFx(b, sfx, dfx) == IF b.enabled /\ b.dst # "ZERO" THEN dfx ELSE sfx

\* The defaults of the constructor's parameters count, offset and
\* elements; 0 for no element buffer.
countOf(def) == IF "count" \in DOMAIN def THEN def.count ELSE 4
offsetOf(def) == IF "offset" \in DOMAIN def THEN def.offset ELSE 0
elementsOf(def) == IF "elements" \in DOMAIN def THEN def.elements ELSE 0

\* What a draw call does with the fragment colours out: a triangle strip
\* over the four vertices of the quad (whole) covers the viewport of the
\* bound framebuffer (0 is the canvas).  entry is the call, logged with
\* the state it ran in.
rasterize(m, out, entry, whole) ==
  LET f == m.gl.framebufferBinding
      pointer == m.gl.attribPointer[0]
      quad == whole /\ pointer # 0 /\ m.buffers[pointer].data = Quad
      t == IF f = 0 THEN 0 ELSE m.framebuffers[f].texture
      storage == IF f = 0 THEN <<m.canvas.width, m.canvas.height>>
                 ELSE m.textures[t].storage
      covers == /\ quad
                /\ m.gl.viewport[3] >= storage[1]
                /\ m.gl.viewport[4] >= storage[2]
      d == IF f = 0 THEN m.canvas ELSE m.textures[t]
      px == BlendTexel(m.gl.blend, out.px, d.px)
      fx == BlendFx(m.gl.blend, out.fx, d.fx)
      logged == Log(m, entry @@ [framebuffer |-> f, source |-> out.source,
                                 viewport |-> m.gl.viewport])
  IN  IF ~covers THEN logged
      ELSE IF f = 0
      THEN [logged EXCEPT !.canvas.px = px, !.canvas.fx = fx]
      ELSE [logged EXCEPT !.textures[t].px = px, !.textures[t].fx = fx]

\* gl.drawArrays(primitive, offset, count) with the fragment colours out
writeFragments(m, def, out) ==
  rasterize(m, out,
            [call |-> "drawArrays", program |-> def.name,
             first |-> offsetOf(def), count |-> countOf(def)],
            offsetOf(def) = 0 /\ countOf(def) = 4)

\* gl.drawElements(primitive, count, type, offset) with the element buffer
\* of def bound
writeIndexed(m, def, out) ==
  rasterize(m, out,
            [call |-> "drawElements", program |-> def.name,
             count |-> countOf(def), offset |-> offsetOf(def),
             elements |-> m.gl.bufferBinding["element"]],
            /\ offsetOf(def) = 0 /\ countOf(def) = 4
            /\ m.buffers[elementsOf(def)].data = QuadIndices)

\* GLProgram.drawArrays: gl.drawArrays with the program of def current
drawArrays(m, def, out) == writeFragments(m, def, out)

\* drawElements that does not look at the target of the buffer.
drawElementsUnchecked(m, def, out) ==
  BufferLeave(writeIndexed(BufferEnter(m, elementsOf(def)), def, out),
              elementsOf(def),
              m.gl.bufferBinding[m.buffers[elementsOf(def)].target])

\* GLProgram.drawElements(elements)
drawElements(m, def, out) ==
  IF m.buffers[elementsOf(def)].target # "element"
  THEN Throw(m, "Indexed draws require an element buffer")
  ELSE BufferLeave(writeIndexed(BufferEnter(m, elementsOf(def)), def, out),
                   elementsOf(def), m.gl.bufferBinding["element"])

\* if (this.elements) drawElements, else drawArrays; out is what the
\* fragment shader computes for the draw.
drawIssue(m, def, out) ==
  IF elementsOf(def) # 0 THEN drawElements(m, def, out)
  ELSE drawArrays(m, def, out)

\* The end of the callback of GLProgram.draw; it is not reached when
\* applying the uniforms or the attributes threw.
drawCall(m, def) ==
  IF ~Ok(m) THEN m ELSE drawIssue(m, def, FragmentOutput(m, def))

(* ------------------------------ GLProgram ------------------------------ *)
\* A shader source as the driver judges it: whether it compiles, whether it
\* links, and the uniforms / attributes that resolve to a location in it.
Source(compiles, links, active) ==
  [compiles |-> compiles, links |-> links, active |-> active]

DEFAULT_VERT == Source(TRUE, TRUE, {"position"})

\* The defaults of the constructor's parameters.  The definitions of the
\* engine give a fragment shader that compiles and uses every uniform they
\* declare; they leave vert and attributes to the defaults.
vertOf(def) == IF "vert" \in DOMAIN def THEN def.vert ELSE DEFAULT_VERT
fragOf(def) ==
  IF "frag" \in DOMAIN def THEN def.frag
  ELSE Source(TRUE, TRUE, {def.uniforms[k] : k \in DOMAIN def.uniforms})
attributesOf(def) ==
  IF "attributes" \in DOMAIN def THEN def.attributes ELSE <<"position">>

\* The shader objects created so far by the calls of the trace; the latest
\* one has this number.
ShaderCount(m) ==
  Cardinality({i \in DOMAIN m.trace : m.trace[i].call = "createShader"})

\* compileShader: the shader it returns is ShaderCount of the result.  A
\* call that follows a throw does not happen.
compileShader(m, source) ==
  IF ~Ok(m) THEN m
  ELSE IF source.compiles
  THEN Log(m, [call |-> "createShader", shader |-> ShaderCount(m) + 1])
  ELSE Throw(Log(Log(m, [call |-> "createShader",
                         shader |-> ShaderCount(m) + 1]),
                 [call |-> "deleteShader", shader |-> ShaderCount(m) + 1]),
             "Shader compile failed")

\* gl.deleteShader(vert); gl.deleteShader(frag): the two shaders of the
\* construction are the latest two of the trace.
deleteShaders(m) ==
  Log(Log(m, [call |-> "deleteShader", shader |-> ShaderCount(m) - 1]),
      [call |-> "deleteShader", shader |-> ShaderCount(m)])

\* buildProgram from gl.createProgram on, m being the state the two
\* compileShader calls left.
linkProgram(m, vertSrc, fragSrc) ==
  IF ~Ok(m) THEN m
  ELSE IF ~(vertSrc.links /\ fragSrc.links)
  THEN Throw(deleteShaders(Log(Log(m, [call |-> "createProgram"]),
                               [call |-> "deleteProgram"])),
             "Program link failed")
  ELSE deleteShaders(Log(m, [call |-> "createProgram"]))

\* buildProgram
buildProgram(m, vertSrc, fragSrc) ==
  linkProgram(compileShader(compileShader(m, vertSrc), fragSrc),
              vertSrc, fragSrc)

\* buildUniforms that leaves out the names without a location.
buildUniformsLenient(m, def) == m

\* GLProgram.buildUniforms: gl.getUniformLocation gives null for a name that
\* is no active uniform of the linked program.
buildUniforms(m, def) ==
  IF Ok(m) /\ \E k \in DOMAIN def.uniforms :
               def.uniforms[k] \notin vertOf(def).active
                                        \cup fragOf(def).active
  THEN Throw(m, "Uniform not found")
  ELSE m

\* GLProgram.buildAttributes: gl.getAttribLocation gives -1 for a name that
\* is no active attribute of the vertex shader.
buildAttributes(m, def) ==
  IF Ok(m) /\ \E k \in DOMAIN attributesOf(def) :
               attributesOf(def)[k] \notin vertOf(def).active
  THEN Throw(m, "Attribute not found")
  ELSE m

\* The GLProgram a constructor that did not throw leaves; the buffer of
\* defaultAttributes is the latest buffer.
programOf(m, def) ==
  IF ~Ok(m) THEN m
  ELSE [m EXCEPT !.programs =
          (def.name :>
             [handle |-> Cardinality(DOMAIN m.programs) + 1,
              position |-> IF "attributes" \in DOMAIN def THEN 0
                           ELSE Len(m.buffers),
              attributeCache |-> 0,
              uniformValues |->
                [n \in {def.uniforms[k] : k \in 1 .. Len(def.uniforms)}
                   |-> UniformDefault(n)]]) @@ @]

\* new GLProgram(gl, definition): defaultAttributes creates the quad
\* buffer when the definition has no attributes, buildProgram the handle,
\* buildUniforms / buildAttributes the locations.  A constructor that
\* throws leaves no program.
ProgramNew(m, def) ==
  programOf(
    buildAttributes(
      buildUniforms(
        buildProgram(IF "attributes" \in DOMAIN def THEN m
                     ELSE BufferNew(m, "array", "static", Quad),
                     vertOf(def), fragOf(def)),
        def),
      def),
    def)

\* The callback GLProgram.draw passes to withProgram.
drawBody(m, def, props) ==
  drawCall(applyAttributes(applyUniforms(applyBlend(m, def), def, props),
                           def, props),
           def)

\* withProgram up to the call of fn: gl.useProgram(program) unless the
\* program is the current one.
withProgramEnter(m, program) ==
  IF m.gl.program = program THEN m ELSE [m EXCEPT !.gl.program = program]

\* withProgram that leaves its program current.
withProgramKeep(ran, program, previous) == ran

\* withProgram after fn, returned or thrown: gl.useProgram(previous) in the
\* finally block, unless the program was the current one at the call.
withProgramLeave(ran, program, previous) ==
  IF previous = program THEN ran ELSE [ran EXCEPT !.gl.program = previous]

\* GLProgram.draw: withProgram restores the previous program, on return
\* and on throw; when the program is already current it is left current.
ProgramDraw(m, def, props) ==
  withProgramLeave(
    drawBody(withProgramEnter(m, m.programs[def.name].handle), def, props),
    m.programs[def.name].handle, m.gl.program)

(* ------------------------------ GLRenderer ----------------------------- *)
\* The canvas a GLRenderer creates for itself.
DefaultCanvas == [width |-> 2, height |-> 1, px |-> Zero4, fx |-> NoFx]

\* GLRenderer.resize: assigning canvas.width / canvas.height converts the
\* number to an unsigned long and clears the drawing buffer.
RendererResize(m, width, height) ==
  LET setWidth == R(m.canvas.width) # width
      setHeight == R(m.canvas.height) # height
      sized == [m.canvas EXCEPT
                  !.width = IF setWidth THEN ToLong(width) ELSE @,
                  !.height = IF setHeight THEN ToLong(height) ELSE @,
                  !.px = IF setWidth \/ setHeight THEN Zero4 ELSE @,
                  !.fx = IF setWidth \/ setHeight THEN NoFx ELSE @]
  IN  Log([m EXCEPT !.canvas = sized,
                    !.gl.viewport = <<0, 0, ToLong(width), ToLong(height)>>],
          [call |-> "resize", width |-> width, height |-> height])

\* The fields of a definition object, and the definitions a caller or the
\* engine can hand to the renderer.  name is the identity of the definition
\* object, not one of its fields: custom and twin are two objects with
\* equal fields.
Fields(def) == [k \in DOMAIN def \ {"name"} |-> def[k]]

CallerDefinition(name, vert, frag, uniforms, attributes) ==
  [name |-> name, uniforms |-> uniforms, blend |-> NoBlend, vert |-> vert,
   frag |-> frag, attributes |-> attributes]

ProgramInputs ==
  Definitions \cup
  { CallerDefinition("custom", DEFAULT_VERT, Source(TRUE, TRUE, {"source"}),
                     <<"source">>, <<"position">>),
    CallerDefinition("twin", DEFAULT_VERT, Source(TRUE, TRUE, {"source"}),
                     <<"source">>, <<"position">>),
    CallerDefinition("badVert", Source(FALSE, TRUE, {}),
                     Source(TRUE, TRUE, {"source"}), <<"source">>,
                     <<"position">>),
    CallerDefinition("badFrag", DEFAULT_VERT, Source(FALSE, TRUE, {}),
                     <<"source">>, <<"position">>),
    CallerDefinition("badBoth", Source(FALSE, TRUE, {}),
                     Source(FALSE, TRUE, {}), <<"source">>, <<"position">>),
    CallerDefinition("unlinked", DEFAULT_VERT,
                     Source(TRUE, FALSE, {"source"}), <<"source">>,
                     <<"position">>),
    CallerDefinition("noUniform", DEFAULT_VERT,
                     Source(TRUE, TRUE, {"source"}), <<"source", "unused">>,
                     <<"position">>),
    CallerDefinition("noAttribute", DEFAULT_VERT,
                     Source(TRUE, TRUE, {"source"}), <<"source">>,
                     <<"position", "normal">>) }

\* GLRenderer.program with a cache looked up by the fields of the
\* definition.
RendererProgramByFields(m, def) ==
  LET cached == \E d \in ProgramInputs :
                  d.name \in DOMAIN m.programs /\ Fields(d) = Fields(def)
      logged == Log(m, [call |-> "program", definition |-> def.name,
                        cached |-> cached])
  IN  IF cached THEN logged ELSE ProgramNew(logged, def)

\* GLRenderer.program: one GLProgram per definition object, compiled on
\* first use; the WeakMap is keyed by the object.
RendererProgram(m, def) ==
  LET cached == def.name \in DOMAIN m.programs
      logged == Log(m, [call |-> "program", definition |-> def.name,
                        cached |-> cached])
  IN  IF cached THEN logged ELSE ProgramNew(logged, def)

\* GLRenderer.framebuffer() without a texture: a framebuffer with a new
\* texture of the canvas size.
RendererFramebuffer(m, owner) ==
  FramebufferNew(m, R(m.canvas.width), R(m.canvas.height), 0, owner)

(* ----------------------------- operations ----------------------------- *)
\* ResizeParams: width and height are optional numbers.
ResizeParams(hasWidth, width, hasHeight, height) ==
  [hasWidth |-> hasWidth, width |-> IF hasWidth THEN width ELSE 0,
   hasHeight |-> hasHeight, height |-> IF hasHeight THEN height ELSE 0]

\* JavaScript truthiness of an optional number: undefined and 0 are falsy.
Truthy(has, value) == has /\ value # 0

\* computeSize with the aspect ratio applied the wrong way round.
computeSizeInverted(srcSize, params) ==
  LET aspect == RDiv(srcSize.width, srcSize.height)
  IN  IF Truthy(params.hasWidth, params.width)
         /\ Truthy(params.hasHeight, params.height)
      THEN [width |-> R(params.width), height |-> R(params.height)]
      ELSE IF Truthy(params.hasWidth, params.width)
      THEN [width |-> R(params.width),
            height |-> RMul(R(params.width), aspect)]
      ELSE IF Truthy(params.hasHeight, params.height)
      THEN [width |-> RDiv(R(params.height), aspect),
            height |-> R(params.height)]
      ELSE srcSize

\* computeSize(srcSize, params)
computeSize(srcSize, params) ==
  LET aspect == RDiv(srcSize.width, srcSize.height)
  IN  IF Truthy(params.hasWidth, params.width)
         /\ Truthy(params.hasHeight, params.height)
      THEN [width |-> R(params.width), height |-> R(params.height)]
      ELSE IF Truthy(params.hasWidth, params.width)
      THEN [width |-> R(params.width),
            height |-> RDiv(R(params.width), aspect)]
      ELSE IF Truthy(params.hasHeight, params.height)
      THEN [width |-> RMul(R(params.height), aspect),
            height |-> R(params.height)]
      ELSE srcSize

CopyOperation(source) == [kind |-> "copy", source |-> source]
ResizeOperation(params) == [kind |-> "resize", params |-> params]
BlurOperation(radius, direction) ==
  [kind |-> "blur", radius |-> radius, direction |-> direction]
ColorOperation(color) == [kind |-> "color", color |-> color]

\* An optional parameter that was not given, and a ?? b on such parameters.
Undefined == << >>
Defaulted(a, b) == IF a = Undefined THEN b ELSE a

\* ModulateParams: every field is optional.
ModulateParams(brightness, saturation, hue, lightness, tint) ==
  [brightness |-> brightness, saturation |-> saturation, hue |-> hue,
   lightness |-> lightness, tint |-> tint]

ModulateOperation(params) == [kind |-> "modulate", params |-> params]
LinearOperation(params) == [kind |-> "linear", params |-> params]
GammaOperation(exponent) ==
  [kind |-> "gamma", exponent |-> Defaulted(exponent, <<R(1), R(1), R(1)>>)]

NoOperation == [kind |-> "none"]

\* The context of a run: source = 0 when the context has no source texture.
Context(source, target) == [source |-> source, target |-> target]

\* The definition an operation was constructed with.
DefinitionOf(op) ==
  CASE op.kind = "copy" -> COPY
    [] op.kind = "resize" -> COPY
    [] op.kind = "blur" -> blur
    [] op.kind = "color" -> COLOR
    [] op.kind = "modulate" -> modulate
    [] op.kind = "linear" -> linear
    [] op.kind = "gamma" -> gamma

\* getProps(ctx) of the operation.
getProps(op, ctx) ==
  CASE op.kind = "copy" -> Props(op.source, Zero4, 0, <<0, 0>>)
    [] op.kind = "resize" -> Props(ctx.source, Zero4, 0, <<0, 0>>)
    [] op.kind = "color" -> Props(0, op.color, 0, <<0, 0>>)
    [] op.kind = "blur" -> Props(ctx.source, Zero4, op.radius, op.direction)
    [] op.kind = "modulate" ->
         [source |-> ctx.source,
          brightness |-> Defaulted(op.params.brightness, R(1)),
          saturation |-> Defaulted(op.params.saturation, R(1)),
          hue |-> Defaulted(op.params.hue, R(0)),
          lightness |-> Defaulted(op.params.lightness, R(0)),
          tint |-> Defaulted(op.params.tint, <<R(1), R(1), R(1)>>)]
    [] op.kind = "linear" ->
         [source |-> ctx.source,
          multiply |-> Defaulted(op.params.multiply,
                                 <<R(1), R(1), R(1), R(1)>>),
          add |-> Defaulted(op.params.add, <<R(0), R(0), R(0), R(0)>>)]
    [] op.kind = "gamma" ->
         [source |-> ctx.source, exponent |-> op.exponent]

\* The operations whose getProps throws when the context has no source.
SourceRequired == {"resize", "modulate", "linear", "gamma"}

\* program.draw(this.getProps(ctx)) with a getProps that samples the
\* texture of the target when the context has no source.
drawPropsOfTarget(m, op, ctx) ==
  ProgramDraw(m, DefinitionOf(op),
              getProps(op, [ctx EXCEPT !.source =
                              IF @ = 0 THEN m.framebuffers[ctx.target].texture
                              ELSE @]))

\* program.draw(this.getProps(ctx))
drawProps(m, op, ctx) ==
  IF op.kind \in SourceRequired /\ ctx.source = 0
  THEN Throw(m, "Source texture is required")
  ELSE ProgramDraw(m, DefinitionOf(op), getProps(op, ctx))

\* ProgramOperation.run
ProgramOperationRun(m, op, ctx) ==
  LET looked == RendererProgram(m, DefinitionOf(op))
  IN  FramebufferUse(looked, ctx.target,
                     drawProps(FramebufferEnter(looked, ctx.target), op, ctx))

\* ResizeOperation.run with the two statements exchanged: the copy is
\* drawn into the target before the target is resized.
ResizeOperationRunDrawFirst(m, op, ctx) ==
  LET previous == FramebufferSize(m, ctx.target)
      size == computeSize(previous, op.params)
      drawn == ProgramOperationRun(m, op, ctx)
  IN  IF Ok(drawn)
      THEN TextureResize(drawn, m.framebuffers[ctx.target].texture,
                         size.width, size.height)
      ELSE drawn

\* ResizeOperation.run
ResizeOperationRun(m, op, ctx) ==
  LET previous == FramebufferSize(m, ctx.target)
      size == computeSize(previous, op.params)
      resized == TextureResize(m, m.framebuffers[ctx.target].texture,
                               size.width, size.height)
  IN  IF Ok(resized) THEN ProgramOperationRun(resized, op, ctx) ELSE resized

\* BlurOperation.run with the check of the source ahead of the check of
\* the radius.
BlurOperationRunSourceFirst(m, op, ctx) ==
  IF ctx.source = 0 THEN Throw(m, "Source texture is required")
  ELSE IF op.radius = 0 THEN m
  ELSE ProgramOperationRun(m, op, ctx)

\* BlurOperation.run
BlurOperationRun(m, op, ctx) ==
  IF op.radius = 0 THEN m
  ELSE IF ctx.source = 0 THEN Throw(m, "Source texture is required")
  ELSE ProgramOperationRun(m, op, ctx)

\* operation.run(ctx), dispatched on the class of the operation.
OperationRun(m, op, ctx) ==
  CASE op.kind = "resize" -> ResizeOperationRun(m, op, ctx)
    [] op.kind = "blur" -> BlurOperationRun(m, op, ctx)
    [] OTHER -> ProgramOperationRun(m, op, ctx)

(* ------------------------------ SharpGPU ------------------------------- *)
\* The inputs of the calls of SharpGPU below.
Radii == {0, 2}
BlurInputs == {-1, 0, 2}
ResizeInputs ==
  { ResizeParams(TRUE, 4, FALSE, 0), ResizeParams(FALSE, 0, TRUE, 1),
    ResizeParams(TRUE, -1, FALSE, 0) }

(* --------------------------- createLUTCommand -------------------------- *)
\* LUTParams.lut: an array of numbers or a function of x.
LutArray(points) == [kind |-> "array", points |-> points, name |-> ""]
LutFunction(name) == [kind |-> "function", points |-> << >>, name |-> name]

\* The LUT objects a caller holds, named by their place in this list: two
\* arrays with equal contents, the inverse curve, and x => x * x.
CallerLuts ==
  << LutArray(<<R(0), R(1)>>), LutArray(<<R(0), R(1)>>),
     LutArray(<<R(1), R(0)>>), LutFunction("square") >>

\* The array literal [0, 1] of props.lut ?? [0, 1]: an object of its own
\* at every evaluation, identical to no other.
Anonymous == 0 - 1

\* createLerp(src)(t)
createLerp(src, t) ==
  IF ~RLess(R(0), t) THEN src[1]
  ELSE IF ~RLess(t, R(1)) THEN src[Len(src)]
  ELSE LET pos == RMul(t, R(Len(src) - 1))
           idx == ToLong(pos)
           frac == RSub(pos, R(idx))
           a == src[idx + 1]
           b == src[Min(idx + 1, Len(src) - 1) + 1]
       IN  RAdd(a, RMul(RSub(b, a), frac))

\* interpolate: the function itself, or createLerp of the array
interpolate(lut, t) ==
  IF lut.kind = "function" THEN RMul(t, t) ELSE createLerp(lut.points, t)

\* The store of a number into a Uint8ClampedArray: clamped to 0..255 and
\* rounded to the nearest integer, a tie to the even one.
ToUint8Clamped(v) ==
  LET q == v[1] \div v[2]
      r == v[1] % v[2]
  IN  IF v[1] <= 0 THEN 0
      ELSE IF q >= 255 THEN 255
      ELSE IF 2 * r > v[2] \/ (2 * r = v[2] /\ q % 2 = 1) THEN q + 1
      ELSE q

\* The loop of updateTexture: data[i] = interpolate(i / 255) * 255; the
\* entry of i is at place i + 1.
lutData(lut) ==
  [i \in 1 .. 256 |->
     ToUint8Clamped(RMul(interpolate(lut, Frac(i - 1, 255)), R(255)))]

\* updateTexture that compares the curve it would compute with the one it
\* holds.
updateTextureByContents(c, lut, id) ==
  IF lutData(lut) = c.data THEN [c EXCEPT !.uploaded = FALSE]
  ELSE [c EXCEPT !.lastLut = id, !.data = lutData(lut), !.uploaded = TRUE]

\* updateTexture(lut), id being the object lut is: if (lut === lastLut)
\* return; else fill data and call lutTexture(params).  uploaded tells
\* whether the call reached lutTexture(params).
updateTexture(c, lut, id) ==
  IF id # Anonymous /\ id = c.lastLut THEN [c EXCEPT !.uploaded = FALSE]
  ELSE [c EXCEPT !.lastLut = id, !.data = lutData(lut), !.uploaded = TRUE]

\* The uniform lut of the command: updateTexture(props.lut ?? [0, 1]);
\* o = 0 stands for an undefined props.lut.
lutUniform(c, o) ==
  IF o = 0 THEN updateTexture(c, LutArray(<<R(0), R(1)>>), Anonymous)
  ELSE updateTexture(c, c.objects[o], o)

Init ==
  /\ operations = << >>
  /\ textures = << >>
  /\ framebuffers = << >>
  /\ buffers = << >>
  /\ programs = [n \in {} |-> 0]
  /\ canvas = DefaultCanvas
  /\ gl = [framebufferBinding |-> 0,
           viewport |-> <<0, 0, DefaultCanvas.width, DefaultCanvas.height>>,
           program |-> 0,
           blend |-> [enabled |-> FALSE, src |-> "ONE", dst |-> "ZERO",
                      equation |-> "FUNC_ADD"],
           activeTexture |-> 0,
           textureBinding |-> [u \in TextureUnits |-> 0],
           unpackFlipY |-> FALSE,
           bufferBinding |-> [array |-> 0, element |-> 0],
           attribPointer |-> [l \in {0} |-> 0]]
  /\ trace = << >>
  /\ render = [pc |-> "idle", src |-> 0, dst |-> 0, i |-> 0, count |-> 0,
               error |-> ""]
  /\ direct = [runs |-> 0, operation |-> NoOperation, source |-> 0,
               target |-> 0, error |-> ""]
  /\ pipeline = [src |-> 0, dst |-> 0, pc |-> "idle", i |-> 0,
                 source |-> 0, target |-> 0, disposes |-> 0]
  /\ clone = [made |-> FALSE, renderer |-> 0, shared |-> FALSE,
              operations |-> << >>]
  /\ scopes = [stack |-> << >>, error |-> "",
               left |-> [kind |-> "none", object |-> 0]]
  /\ lutCommand = [lastLut |-> 0, data |-> [i \in 1 .. 256 |-> 0],
                   uploaded |-> FALSE,
                   objects |-> CallerLuts]

\* No call of the public interface runs while render() is on the stack.
Callable == render.pc # "rendering"

\* trace holds the calls of the latest render() or operation.run(): such a
\* call starts from an empty trace, other calls leave the trace alone.
Fresh == [Machine EXCEPT !.trace = << >>]
Untraced(m) == [m EXCEPT !.trace = trace]

\* SharpGPU.addOperation
addOperation(ops, operation) == Append(ops, operation)

\* SharpGPU.loadImage(src), once the image is decoded: texture upload,
\* then this.resize(image).copy(texture).
LoadImage(k) ==
  /\ Callable
  /\ Len(operations) + 2 <= MaxOps
  /\ LET m == TextureNew(Machine, R(Images[k].width), R(Images[k].height),
                         ImageData(k), TRUE)
         t == Len(textures) + 1
         size == ResizeParams(TRUE, Images[k].width, TRUE, Images[k].height)
     IN  /\ Commit(Untraced(m))
         /\ operations' = addOperation(
                            addOperation(operations, ResizeOperation(size)),
                            CopyOperation(t))
  /\ UNCHANGED <<render, direct, pipeline, clone, scopes, lutCommand>>

\* SharpGPU.resize(params)
Resize(params) ==
  /\ Callable
  /\ Len(operations) < MaxOps
  /\ operations' = addOperation(operations, ResizeOperation(params))
  /\ UNCHANGED <<textures, framebuffers, buffers, programs, canvas, gl,
                 trace, render, direct, pipeline, clone, scopes, lutCommand>>

\* The textures the caller holds: those created from a decoded image.
LoadedTextures == {t \in 1 .. Len(textures) : textures[t].data.kind = "image"}

\* SharpGPU.copy(src)
Copy(t) ==
  /\ Callable
  /\ Len(operations) < MaxOps
  /\ operations' = addOperation(operations, CopyOperation(t))
  /\ UNCHANGED <<textures, framebuffers, buffers, programs, canvas, gl,
                 trace, render, direct, pipeline, clone, scopes, lutCommand>>

\* SharpGPU.blur(radius) that lets a radius of 0 through.
blurOperationsUnfiltered(ops, radius) ==
  IF radius >= 0
  THEN addOperation(addOperation(ops, BlurOperation(radius, <<1, 0>>)),
                    BlurOperation(radius, <<0, 1>>))
  ELSE ops

\* SharpGPU.blur(radius): the list after the call.
blurOperations(ops, radius) ==
  IF radius > 0
  THEN addOperation(addOperation(ops, BlurOperation(radius, <<1, 0>>)),
                    BlurOperation(radius, <<0, 1>>))
  ELSE ops

Blur(radius) ==
  /\ Callable
  /\ Len(blurOperations(operations, radius)) <= MaxOps
  /\ operations' = blurOperations(operations, radius)
  /\ UNCHANGED <<textures, framebuffers, buffers, programs, canvas, gl,
                 trace, render, direct, pipeline, clone, scopes, lutCommand>>

\* SharpGPU.color(color)
Color(color) ==
  /\ Callable
  /\ Len(operations) < MaxOps
  /\ operations' = addOperation(operations, ColorOperation(color))
  /\ UNCHANGED <<textures, framebuffers, buffers, programs, canvas, gl,
                 trace, render, direct, pipeline, clone, scopes, lutCommand>>

\* SharpGPU.addOperation(new BlurOperation({radius})), the way a single
\* blur pass of any radius enters the list; the direction defaults to [0, 1].
AddBlurOperation(radius) ==
  /\ Callable
  /\ Len(operations) < MaxOps
  /\ operations' = addOperation(operations, BlurOperation(radius, <<0, 1>>))
  /\ UNCHANGED <<textures, framebuffers, buffers, programs, canvas, gl,
                 trace, render, direct, pipeline, clone, scopes, lutCommand>>

\* SharpGPU.modulate(props)
Modulate(params) ==
  /\ Callable
  /\ Len(operations) < MaxOps
  /\ operations' = addOperation(operations, ModulateOperation(params))
  /\ UNCHANGED <<textures, framebuffers, buffers, programs, canvas, gl,
                 trace, render, direct, pipeline, clone, scopes, lutCommand>>

\* SharpGPU.grayscale(): this.modulate({saturation: 0})
grayscale ==
  ModulateParams(Undefined, R(0), Undefined, Undefined, Undefined)

Grayscale ==
  /\ Callable
  /\ Len(operations) < MaxOps
  /\ operations' = addOperation(operations, ModulateOperation(grayscale))
  /\ UNCHANGED <<textures, framebuffers, buffers, programs, canvas, gl,
                 trace, render, direct, pipeline, clone, scopes, lutCommand>>

(* SharpGPU.render.  A frame is the GPU state m together with the locals   *)
(* of render(): src, dst and the index i of the next operation.            *)
Frame(m, src, dst, i) == [m |-> m, src |-> src, dst |-> dst, i |-> i]

\* An entry of render() that keeps the loop index of the previous render.
renderEntryResumed(m) ==
  LET first == RendererFramebuffer(m, "render")
      second == IF Ok(first) THEN RendererFramebuffer(first, "render")
                ELSE first
  IN  Frame(second, Len(m.framebuffers) + 1, Len(m.framebuffers) + 2,
            IF render.i = 0 THEN 1 ELSE render.i)

\* let src = renderer.framebuffer(); let dst = renderer.framebuffer();
renderEntry(m) ==
  LET first == RendererFramebuffer(m, "render")
      second == IF Ok(first) THEN RendererFramebuffer(first, "render")
                ELSE first
  IN  Frame(second, Len(m.framebuffers) + 1, Len(m.framebuffers) + 2, 1)

\* render() without the exchange of src and dst.
swapNone(fr) == fr

\* [src, dst] = [dst, src]
swap(fr) == [fr EXCEPT !.src = fr.dst, !.dst = fr.src]

\* A run handed the texture of the framebuffer it draws into.
renderRunInPlace(fr, ops) ==
  LET source == fr.m.framebuffers[fr.dst].texture
      entered == Log(fr.m, [call |-> "run", index |-> fr.i,
                            source |-> source, target |-> fr.dst])
  IN  [fr EXCEPT !.m = OperationRun(entered, ops[fr.i],
                                    Context(source, fr.dst))]

\* operation.run({renderer, source: src.texture, target: dst})
renderRun(fr, ops) ==
  LET source == fr.m.framebuffers[fr.src].texture
      entered == Log(fr.m, [call |-> "run", index |-> fr.i,
                            source |-> source, target |-> fr.dst])
  IN  [fr EXCEPT !.m = OperationRun(entered, ops[fr.i],
                                    Context(source, fr.dst))]

\* A loop that leaves the new target at the size it had.
renderResizeSkipped(fr) == fr

\* dst.texture.resize(src.texture.width, src.texture.height)
renderResize(fr) ==
  LET size == FramebufferSize(fr.m, fr.src)
  IN  [fr EXCEPT !.m = TextureResize(fr.m, fr.m.framebuffers[fr.dst].texture,
                                     size.width, size.height)]

\* One iteration of the loop of render(): run, swap, resize the new target.
renderIteration(fr, ops) ==
  LET ran == renderRun(fr, ops)
      resized == renderResize(swap(ran))
  IN  IF Ok(ran.m) THEN [resized EXCEPT !.i = fr.i + 1] ELSE ran

\* The end of render() with its two statements exchanged: the copy is drawn
\* before the canvas is resized.
renderPresentThenResize(fr) ==
  LET source == fr.m.framebuffers[fr.src].texture
      size == FramebufferSize(fr.m, fr.src)
      looked == RendererProgram(fr.m, COPY)
      drawn == ProgramDraw(looked, COPY, Props(source, Zero4, 0, <<0, 0>>))
  IN  [fr EXCEPT !.m = RendererResize(drawn, size.width, size.height)]

\* The end of render(): resize the canvas, copy src to the canvas.
renderPresent(fr) ==
  LET source == fr.m.framebuffers[fr.src].texture
      size == FramebufferSize(fr.m, fr.src)
      sized == RendererResize(fr.m, size.width, size.height)
      looked == RendererProgram(sized, COPY)
  IN  [fr EXCEPT !.m = ProgramDraw(looked, COPY,
                                   Props(source, Zero4, 0, <<0, 0>>))]

\* The loop of render() from frame fr to its end, or to the first throw.
RECURSIVE renderLoop(_, _)
renderLoop(fr, ops) ==
  IF fr.i > Len(ops) \/ ~Ok(fr.m) THEN fr
  ELSE renderLoop(renderIteration(fr, ops), ops)

\* render() as one call on the list ops.
renderAll(m, ops) ==
  LET entered == renderEntry(m)
      looped == IF Ok(entered.m) THEN renderLoop(entered, ops) ELSE entered
  IN  IF Ok(looped.m) THEN renderPresent(looped) ELSE looped

CurrentFrame == Frame(Machine, render.src, render.dst, render.i)

\* The ways the draw of an operation can round: only the shaders that
\* compute a colour produce values between two bytes.
Roundings(op) ==
  IF op.kind \in {"modulate", "linear", "gamma"} THEN BOOLEAN ELSE {TRUE}

\* A render() that catches the error of a step and goes on with the next
\* operation.
PositionResumed(fr, pc) ==
  [render EXCEPT !.pc = pc, !.src = fr.src, !.dst = fr.dst,
                 !.i = IF Ok(fr.m) THEN fr.i ELSE fr.i + 1,
                 !.error = fr.m.error,
                 !.count = IF pc = "presented" THEN @ + 1 ELSE @]

\* The record of render() after a step that left frame fr.
Position(fr, pc) ==
  IF Ok(fr.m)
  THEN [render EXCEPT !.pc = pc, !.src = fr.src, !.dst = fr.dst, !.i = fr.i,
                      !.error = "",
                      !.count = IF pc = "presented" THEN @ + 1 ELSE @]
  ELSE [render EXCEPT !.pc = "failed", !.error = fr.m.error, !.count = @ + 1]

RenderBegin ==
  /\ Callable
  /\ render.count < MaxRenders
  /\ LET fr == renderEntry(Fresh)
     IN  Commit(fr.m) /\ render' = Position(fr, "rendering")
  /\ UNCHANGED <<operations, direct, pipeline, clone, scopes, lutCommand>>

RenderStep ==
  /\ render.pc = "rendering"
  /\ render.i <= Len(operations)
  /\ \E halfUp \in Roundings(operations[render.i]) :
       \E fr \in { renderIteration([CurrentFrame EXCEPT !.m.halfUp = halfUp],
                                   operations) } :
         Commit(fr.m) /\ render' = Position(fr, "rendering")
  /\ UNCHANGED <<operations, direct, pipeline, clone, scopes, lutCommand>>

RenderPresent ==
  /\ render.pc = "rendering"
  /\ render.i > Len(operations)
  /\ \E fr \in { renderPresent(CurrentFrame) } :
       Commit(fr.m) /\ render' = Position(fr, "presented")
  /\ UNCHANGED <<operations, direct, pipeline, clone, scopes, lutCommand>>

Next ==
  \/ \E k \in 1 .. Len(Images) : LoadImage(k)
  \/ \E params \in ResizeInputs : Resize(params)
  \/ \E t \in LoadedTextures : Copy(t)
  \/ \E radius \in BlurInputs : Blur(radius)
  \/ \E color \in Colors : Color(color)
  \/ \E radius \in Radii : AddBlurOperation(radius)
  \/ RenderBegin
  \/ RenderStep
  \/ RenderPresent

Spec == Init /\ [][Next]_vars

(* ------------------------------- clone --------------------------------- *)
\* Operations are objects: in this part every entry of an operations array
\* carries the identity id of its object, so that an array holding the same
\* objects differs from one holding equal copies.  The one renderer of the
\* model is renderer 1.
Object(op, id) == op @@ [id |-> id]

Elements(list) == {list[k] : k \in DOMAIN list}

\* The operations array of the clone: its own, or the array of the original
\* when the two pipelines hold the same array.
CloneOperations == IF clone.shared THEN operations ELSE clone.operations

NextId ==
  1 + Cardinality({o.id : o \in Elements(operations)
                                  \cup Elements(clone.operations)})

CloneItems ==
  { ColorOperation(Green), BlurOperation(2, <<0, 1>>),
    ModulateOperation(grayscale) }

\* clone() that hands its own operations array to the new pipeline.
cloneSameArray(renderer, ops) ==
  [made |-> TRUE, renderer |-> renderer, shared |-> TRUE,
   operations |-> << >>]

\* clone(): new SharpGPU({renderer: this.renderer, operations:
\* [...this.operations]}), and the same of PipelineOperation: the
\* constructor keeps the renderer and the array it is given.
cloneOf(renderer, ops) ==
  [made |-> TRUE, renderer |-> renderer, shared |-> FALSE,
   operations |-> ops]

Clone ==
  /\ ~clone.made
  /\ clone' = cloneOf(1, operations)
  /\ UNCHANGED <<operations, textures, framebuffers, buffers, programs,
                 canvas, gl, trace, render, direct, pipeline, scopes,
                 lutCommand>>

\* original.addOperation(new Operation(...))
AddToOriginal(op) ==
  /\ Len(operations) < MaxOps
  /\ operations' = addOperation(operations, Object(op, NextId))
  /\ UNCHANGED <<textures, framebuffers, buffers, programs, canvas, gl,
                 trace, render, direct, pipeline, clone, scopes, lutCommand>>

\* clone.addOperation(new Operation(...)): the push goes to the array the
\* clone holds.
AddToClone(op) ==
  /\ clone.made
  /\ Len(CloneOperations) < MaxOps
  /\ IF clone.shared
     THEN /\ operations' = addOperation(operations, Object(op, NextId))
          /\ UNCHANGED clone
     ELSE /\ clone' = [clone EXCEPT !.operations =
                         addOperation(@, Object(op, NextId))]
          /\ UNCHANGED operations
  /\ UNCHANGED <<textures, framebuffers, buffers, programs, canvas, gl,
                 trace, render, direct, pipeline, scopes, lutCommand>>

NextClone ==
  \/ Clone
  \/ \E op \in CloneItems : AddToOriginal(op)
  \/ \E op \in CloneItems : AddToClone(op)

SpecClone == Init /\ [][NextClone]_vars

(* ------------------------- colour pipelines ---------------------------- *)
\* The pipelines SharpGPU.from(image).modulate(...) / .grayscale() build.
ModulateInputs ==
  { ModulateParams(Undefined, Undefined, Undefined, Undefined, Undefined),
    ModulateParams(Frac(1, 2), Undefined, R(120), Undefined, Undefined),
    ModulateParams(Undefined, R(0), Undefined, Frac(1, 4),
                   <<R(1), Frac(1, 2), R(0)>>) }

NextModulate ==
  \/ \E k \in 1 .. Len(Images) : LoadImage(k)
  \/ \E params \in ModulateInputs : Modulate(params)
  \/ Grayscale
  \/ RenderBegin
  \/ RenderStep
  \/ RenderPresent

SpecModulate == Init /\ [][NextModulate]_vars

(* ------------------- operations run by a caller ------------------------ *)
\* The operations of src/operations are public: a caller can create a
\* texture and a framebuffer with the renderer and run an operation on a
\* context of its own, with or without a source texture.
MaxRuns == 2

DimInputs == {-1, 0, 1, 4}
DirectResizeInputs ==
  {ResizeParams(hw, w, hh, h) :
     hw \in BOOLEAN, w \in DimInputs, hh \in BOOLEAN, h \in DimInputs}
DirectColors == {Green, <<64, 0, 255, 128>>}
Directions == {<<1, 0>>, <<0, 1>>}

DirectOperations ==
  {CopyOperation(t) : t \in LoadedTextures}
    \cup {ResizeOperation(p) : p \in DirectResizeInputs}
    \cup {BlurOperation(r, d) : r \in Radii, d \in Directions}
    \cup {ColorOperation(c) : c \in DirectColors}

\* renderer.texture({width, height, data: image, flipY: true})
RendererTexture(k) ==
  /\ pipeline.pc = "idle"
  /\ \A t \in LoadedTextures : textures[t].data # ImageData(k)
  /\ Commit(Untraced(TextureNew(Machine, R(Images[k].width),
                                R(Images[k].height), ImageData(k), TRUE)))
  /\ UNCHANGED <<operations, render, direct, pipeline, clone, scopes,
                 lutCommand>>

\* renderer.framebuffer({width: 2, height: 2}), kept by the caller as the
\* target of its runs
CallerFramebuffer ==
  /\ pipeline.pc = "idle"
  /\ framebuffers = << >>
  /\ Commit(Untraced(FramebufferNew(Machine, R(2), R(2), 0, "caller")))
  /\ UNCHANGED <<operations, render, direct, pipeline, clone, scopes,
                 lutCommand>>

\* operation.run({renderer, source, target}); source = 0: no source.  A
\* caller does not sample the texture it renders into.
RunOperation(op, source, target) ==
  /\ direct.runs < MaxRuns
  /\ source # framebuffers[target].texture
  /\ \E halfUp \in Roundings(op) :
       \E ran \in { OperationRun([Fresh EXCEPT !.halfUp = halfUp], op,
                                 Context(source, target)) } :
           /\ Commit(ran)
           /\ direct' = [runs |-> direct.runs + 1, operation |-> op,
                         source |-> source, target |-> target,
                         error |-> ran.error]
  /\ UNCHANGED <<operations, render, pipeline, clone, scopes, lutCommand>>

NextDirect ==
  \/ \E k \in 1 .. Len(Images) : RendererTexture(k)
  \/ CallerFramebuffer
  \/ \E op \in DirectOperations, source \in 0 .. Len(textures),
        target \in 1 .. Len(framebuffers) : RunOperation(op, source, target)

SpecDirect == Init /\ [][NextDirect]_vars

(* ------------------ operations that sample a source -------------------- *)
\* Resize, Linear, Gamma, Modulate and Blur run by a caller, on a context
\* with a source texture or without one.
LinearParams(multiply, add) == [multiply |-> multiply, add |-> add]

SourceOperations ==
  { ResizeOperation(ResizeParams(TRUE, 4, FALSE, 0)),
    LinearOperation(LinearParams(Undefined, Undefined)),
    LinearOperation(LinearParams(<<R(-1), R(-1), R(-1), R(1)>>,
                                 <<R(1), R(1), R(1), R(0)>>)),
    GammaOperation(Undefined),
    GammaOperation(<<R(2), R(2), R(2)>>),
    ModulateOperation(grayscale),
    BlurOperation(2, <<1, 0>>),
    BlurOperation(0, <<1, 0>>) }

NextSource ==
  \/ \E k \in 1 .. Len(Images) : RendererTexture(k)
  \/ CallerFramebuffer
  \/ \E op \in SourceOperations, source \in 0 .. Len(textures),
        target \in 1 .. Len(framebuffers) : RunOperation(op, source, target)

SpecSource == Init /\ [][NextSource]_vars

(* --------------------- resources held by a caller ---------------------- *)
\* The renderer hands textures, framebuffers and buffers to its caller,
\* who resizes and disposes them.  direct records the latest such call the
\* way it records a run: operation is the call and its arguments.
\* The sizes a caller asks for.
Sizes ==
  { [width |-> R(w), height |-> R(h)] :
      <<w, h>> \in {<<0, 2>>, <<2, -1>>, <<2, 2>>, <<4, 1>>} }

\* The record of a call on a resource that left the state ran.
Called(kind, object, size, ran) ==
  [runs |-> direct.runs + 1,
   operation |-> [kind |-> kind, object |-> object, size |-> size],
   source |-> 0, target |-> 0, error |-> ran.error]

NoSize == [width |-> R(0), height |-> R(0)]

\* renderer.framebuffer({width: 2, height: 2, texture}); texture = 0: none.
\* The caller makes one framebuffer of each kind.
ResourceFramebuffer(texture) ==
  /\ \A f \in DOMAIN framebuffers : framebuffers[f].config # texture
  /\ Commit(Untraced(FramebufferNew(Machine, R(2), R(2), texture, "caller")))
  /\ UNCHANGED <<operations, render, direct, pipeline, clone, scopes,
                 lutCommand>>

\* renderer.buffer({data}), once
ResourceBuffer ==
  /\ buffers = << >>
  /\ Commit(Untraced(BufferNew(Machine, "array", "static", Quad)))
  /\ UNCHANGED <<operations, render, direct, pipeline, clone, scopes,
                 lutCommand>>

\* texture.resize(width, height)
ResizeTexture(t, size) ==
  /\ direct.runs < MaxRuns
  /\ LET ran == TextureResize(Fresh, t, size.width, size.height)
     IN  Commit(ran) /\ direct' = Called("texture.resize", t, size, ran)
  /\ UNCHANGED <<operations, render, pipeline, clone, scopes, lutCommand>>

\* framebuffer.resize(size)
ResizeFramebuffer(f, size) ==
  /\ direct.runs < MaxRuns
  /\ LET ran == FramebufferResize(Fresh, f, size)
     IN  Commit(ran) /\ direct' = Called("framebuffer.resize", f, size, ran)
  /\ UNCHANGED <<operations, render, pipeline, clone, scopes, lutCommand>>

\* texture.dispose()
DisposeTexture(t) ==
  /\ direct.runs < MaxRuns
  /\ LET ran == TextureDispose(Fresh, t)
     IN  Commit(ran) /\ direct' = Called("texture.dispose", t, NoSize, ran)
  /\ UNCHANGED <<operations, render, pipeline, clone, scopes, lutCommand>>

\* framebuffer.dispose()
DisposeFramebuffer(f) ==
  /\ direct.runs < MaxRuns
  /\ LET ran == FramebufferDispose(Fresh, f)
     IN  Commit(ran) /\ direct' = Called("framebuffer.dispose", f, NoSize, ran)
  /\ UNCHANGED <<operations, render, pipeline, clone, scopes, lutCommand>>

\* buffer.dispose()
DisposeBuffer(b) ==
  /\ direct.runs < MaxRuns
  /\ LET ran == BufferDispose(Fresh, b)
     IN  Commit(ran) /\ direct' = Called("buffer.dispose", b, NoSize, ran)
  /\ UNCHANGED <<operations, render, pipeline, clone, scopes, lutCommand>>

\* renderer.program(definition); result is the handle of the program the
\* call returned, 0 when it threw.
Program(def) ==
  /\ direct.runs < MaxRuns
  /\ LET ran == RendererProgram(Fresh, def)
     IN  /\ Commit(ran)
         /\ direct' =
              [runs |-> direct.runs + 1,
               operation |-> [kind |-> "renderer.program",
                              object |-> def.name, size |-> NoSize],
               source |-> 0, target |-> 0, error |-> ran.error,
               result |-> IF Ok(ran) /\ def.name \in DOMAIN ran.programs
                          THEN ran.programs[def.name].handle ELSE 0]
  /\ UNCHANGED <<operations, render, pipeline, clone, scopes, lutCommand>>

NextResources ==
  \/ RendererTexture(1)
  \/ \E texture \in {0} \cup LoadedTextures : ResourceFramebuffer(texture)
  \/ ResourceBuffer
  \/ \E t \in 1 .. Len(textures), size \in Sizes : ResizeTexture(t, size)
  \/ \E f \in 1 .. Len(framebuffers), size \in Sizes :
        ResizeFramebuffer(f, size)
  \/ \E t \in 1 .. Len(textures) : DisposeTexture(t)
  \/ \E f \in 1 .. Len(framebuffers) : DisposeFramebuffer(f)
  \/ \E b \in 1 .. Len(buffers) : DisposeBuffer(b)
  \/ \E def \in ProgramInputs : Program(def)

SpecResources == Init /\ [][NextResources]_vars

(* ----------------------- textures held by a caller -------------------- *)
\* A caller makes textures of its own with renderer.texture(params), and
\* updates, resizes and binds them.
MaxTextures == 2
MaxCalls == 3

\* The textures whose constructor returned: the ones somebody holds.
Held == {t \in 1 .. Len(textures) : textures[t].constructed}

\* The pixel sources a caller gives: none, a decoded image, raw bytes.
TextureData == {NoData, ImageData(1), BytesData(Green)}

\* The params of an update(): a field is given or left undefined.
UpdateParams(hasWidth, width, hasHeight, height, data, hasFlipY, flipY) ==
  [hasWidth |-> hasWidth, width |-> R(width), hasHeight |-> hasHeight,
   height |-> R(height), data |-> data, hasFlipY |-> hasFlipY,
   flipY |-> flipY]

UpdateInputs ==
  { UpdateParams(TRUE, 0, FALSE, 0, NoData, FALSE, FALSE),
    UpdateParams(FALSE, 0, TRUE, -1, NoData, FALSE, FALSE),
    UpdateParams(TRUE, 4, FALSE, 0, NoData, FALSE, FALSE),
    UpdateParams(FALSE, 0, FALSE, 0, ImageData(2), FALSE, FALSE),
    UpdateParams(TRUE, 2, TRUE, 2, BytesData(Red), TRUE, FALSE),
    UpdateParams(FALSE, 0, FALSE, 0, NoData, TRUE, TRUE) }

\* The record of a call on a texture: what Called records, and the params.
CalledWith(kind, t, size, params, ran) ==
  [runs |-> direct.runs + 1,
   operation |-> [kind |-> kind, object |-> t, size |-> size,
                  params |-> params],
   source |-> 0, target |-> 0, error |-> ran.error]

\* renderer.texture({width, height, data, flipY}); the caller flips the
\* decoded images, as loadImage does.
NewTexture(size, data) ==
  /\ direct.runs < MaxCalls
  /\ Len(textures) < MaxTextures
  /\ \E ran \in { TextureNew(Fresh, size.width, size.height, data,
                                data.kind = "image") } :
       /\ Commit(ran)
       /\ direct' = CalledWith("texture.new", Len(textures) + 1, size,
                               UpdateParams(TRUE, 0, TRUE, 0, data, TRUE,
                                            data.kind = "image"), ran)
  /\ UNCHANGED <<operations, render, pipeline, clone, scopes, lutCommand>>

\* texture.update(params)
UpdateTexture(t, params) ==
  /\ direct.runs < MaxCalls
  /\ \E ran \in { TextureUpdate(Fresh, t, params) } :
       /\ Commit(ran)
       /\ direct' = CalledWith("texture.update", t, NoSize, params, ran)
  /\ UNCHANGED <<operations, render, pipeline, clone, scopes, lutCommand>>

\* texture.resize(width, height), recorded with the params resize hands to
\* update.
ResizeHeld(t, size) ==
  /\ direct.runs < MaxCalls
  /\ \E ran \in { TextureResize(Fresh, t, size.width, size.height) } :
       /\ Commit(ran)
       /\ direct' = CalledWith("texture.resize", t, size,
                               UpdateParams(TRUE, 0, TRUE, 0, NoData, FALSE,
                                            FALSE), ran)
  /\ UNCHANGED <<operations, render, pipeline, clone, scopes, lutCommand>>

\* texture.bind(unit)
BindTexture(t, unit) ==
  /\ gl.textureBinding[unit] # t \/ gl.activeTexture # unit
  /\ Commit(TextureBind(Machine, t, unit))
  /\ UNCHANGED <<operations, render, direct, pipeline, clone, scopes,
                 lutCommand>>

NextTexture ==
  \/ \E size \in Sizes, data \in TextureData : NewTexture(size, data)
  \/ \E t \in Held, params \in UpdateInputs : UpdateTexture(t, params)
  \/ \E t \in Held, size \in Sizes : ResizeHeld(t, size)
  \/ \E t \in Held, unit \in TextureUnits : BindTexture(t, unit)

SpecTexture == Init /\ [][NextTexture]_vars

(* ----------------------- programs of a caller -------------------------- *)
\* Two definitions of a caller with two texture uniforms and a number, in
\* two declaration orders, and the attribute position: (props) =>
\* props.position.
mix ==
  CallerDefinition("mix", DEFAULT_VERT,
                   Source(TRUE, TRUE, {"source", "amount", "mask"}),
                   <<"source", "amount", "mask">>, <<"position">>)
mixReversed ==
  CallerDefinition("mixReversed", DEFAULT_VERT,
                   Source(TRUE, TRUE, {"source", "amount", "mask"}),
                   <<"amount", "mask", "source">>, <<"position">>)

CallerDefinitions == {mix, mixReversed}

\* The props of a draw of mix; source = 0 and mask = 0 stand for undefined,
\* position is one of CallerAttributes.
MixProps(source, mask, amount, position) ==
  [source |-> source, mask |-> mask, amount |-> amount,
   position |-> position]

\* The draws a caller asks for: every choice of the two textures with one
\* attribute object, every attribute object with one choice of textures.
MixInputs ==
  {MixProps(source, mask, R(amount), 1) :
     source \in 0 .. 2, mask \in 0 .. 2, amount \in {1}}
    \cup {MixProps(1, 2, R(1), position) :
            position \in DOMAIN CallerAttributes}

\* renderer.buffer({target, data}): two array buffers, then an element
\* buffer, handles 1, 2 and 3.
CallerBuffer ==
  /\ Len(buffers) < 3
  /\ Commit(Untraced(BufferNew(Machine,
                               IF Len(buffers) < 2 THEN "array" ELSE "element",
                               "static", Quad)))
  /\ UNCHANGED <<operations, render, direct, pipeline, clone, scopes,
                 lutCommand>>

\* renderer.program(def).draw(props) on the default framebuffer
CallerDraw(def, props) ==
  /\ direct.runs < MaxCalls
  /\ Len(buffers) = 3
  /\ Len(textures) = 2
  /\ \E ran \in { ProgramDraw(RendererProgram(Fresh, def), def, props) } :
       /\ Commit(ran)
       /\ direct' = [runs |-> direct.runs + 1,
                     operation |-> [kind |-> "program.draw",
                                    object |-> def.name, props |-> props],
                     source |-> props.source, target |-> 0,
                     error |-> ran.error]
  /\ UNCHANGED <<operations, render, pipeline, clone, scopes, lutCommand>>

NextCaller ==
  \/ \E k \in 1 .. Len(Images) : Len(textures) = k - 1 /\ RendererTexture(k)
  \/ CallerBuffer
  \/ \E def \in CallerDefinitions, props \in MixInputs : CallerDraw(def, props)

SpecCaller == Init /\ [][NextCaller]_vars

(* ------------------------- draws of the LUT command -------------------- *)
\* A draw of the command with props {lut: the object o}, or with no lut
\* (o = 0): the uniform function runs updateTexture.
LutDraw(o) ==
  /\ direct.runs < MaxCalls
  /\ lutCommand' = lutUniform(lutCommand, o)
  /\ direct' = [runs |-> direct.runs + 1,
                operation |-> [kind |-> "lut", object |-> o],
                source |-> 0, target |-> 0, error |-> ""]
  /\ UNCHANGED <<operations, textures, framebuffers, buffers, programs,
                 canvas, gl, trace, render, pipeline, clone, scopes>>

\* The caller writes into an array it holds: lut.reverse().
MutateLut(o) ==
  /\ lutCommand.objects[o].kind = "array"
  /\ lutCommand' =
       [lutCommand EXCEPT !.objects[o].points = <<@[2], @[1]>>]
  /\ UNCHANGED <<operations, textures, framebuffers, buffers, programs,
                 canvas, gl, trace, render, direct, pipeline, clone, scopes>>

NextLut ==
  \/ \E o \in 0 .. Len(CallerLuts) : LutDraw(o)
  \/ \E o \in 1 .. Len(CallerLuts) : MutateLut(o)

SpecLut == Init /\ [][NextLut]_vars

(* ------------------ indexed and non-indexed draws ---------------------- *)
\* Definitions of a caller: one with an element buffer (buffer 3), one
\* whose elements is an array buffer (buffer 1), one that draws three
\* vertices from the second on, one with the defaults.
ElementDefinition(name) ==
  CallerDefinition(name, DEFAULT_VERT, Source(TRUE, TRUE, {"source"}),
                   <<"source">>, <<"position">>)

indexed == [elements |-> 3] @@ ElementDefinition("indexed")
misindexed == [elements |-> 1] @@ ElementDefinition("misindexed")
partial == [count |-> 3, offset |-> 1] @@ ElementDefinition("partial")
plain == ElementDefinition("plain")

ElementDefinitions == {indexed, misindexed, partial, plain}

\* Draws with and without a source texture, with an attribute on an array
\* buffer and on the element buffer.
ElementInputs ==
  {MixProps(source, 0, R(1), position) :
     source \in 0 .. 1, position \in {1, 4}}

NextElements ==
  \/ \E k \in 1 .. Len(Images) : Len(textures) = k - 1 /\ RendererTexture(k)
  \/ CallerBuffer
  \/ \E def \in ElementDefinitions, props \in ElementInputs :
        CallerDraw(def, props)

SpecElements == Init /\ [][NextElements]_vars

(* ------------------- callbacks of use() and draw() --------------------- *)
\* GLFramebuffer.use(fn) runs the caller's fn; GLProgram.draw runs, inside
\* withProgram, the value functions of the uniforms, which are the
\* caller's too.  Such a callback can call use() and draw() again, return
\* or throw.  scopes.stack holds one frame per call whose callback is
\* running, with the locals the call saved.
MaxDepth == 2

\* The programs a caller draws: def is an index into this list.
DrawDefinitions == <<COPY, COLOR>>

NoViewport == <<0, 0, 0, 0>>

ScopeFrame(kind, object, source, previous, previousViewport, viewport) ==
  [kind |-> kind, object |-> object, source |-> source,
   previous |-> previous, previousViewport |-> previousViewport,
   viewport |-> viewport]

Innermost == scopes.stack[Len(scopes.stack)]

\* framebuffer.use(fn), up to the call of fn
UseEnter(f) ==
  /\ scopes.error = ""
  /\ Len(scopes.stack) < MaxDepth
  /\ \E ran \in { FramebufferEnter(Machine, f) } :
       /\ Commit(Untraced(ran))
       /\ scopes' = [scopes EXCEPT !.stack =
                       Append(@, ScopeFrame("use", f, 0,
                                            gl.framebufferBinding,
                                            gl.viewport, ran.gl.viewport))]
  /\ UNCHANGED <<operations, render, direct, pipeline, clone, lutCommand>>

\* renderer.program(definition).draw(props), up to the call of the value
\* function of the first uniform: withProgram, then applyBlend.
DrawEnter(def, source) ==
  /\ scopes.error = ""
  /\ Len(scopes.stack) < MaxDepth
  /\ \E looked \in { RendererProgram(Machine, DrawDefinitions[def]) } :
       /\ Commit(Untraced(
            applyBlend(
              withProgramEnter(
                looked, looked.programs[DrawDefinitions[def].name].handle),
              DrawDefinitions[def])))
       /\ scopes' = [scopes EXCEPT !.stack =
                       Append(@, ScopeFrame("draw", def, source, gl.program,
                                            NoViewport, NoViewport))]
  /\ UNCHANGED <<operations, render, direct, pipeline, clone, lutCommand>>

\* framebuffer.resize(4, 1), by the caller or by a callback
ScopeResize(f) ==
  /\ scopes.error = ""
  /\ FramebufferSize(Machine, f) # [width |-> R(4), height |-> R(1)]
  /\ Commit(Untraced(FramebufferResize(Machine, f,
                                       [width |-> R(4), height |-> R(1)])))
  /\ UNCHANGED <<operations, render, direct, pipeline, clone, scopes,
                 lutCommand>>

\* The draws a caller or a callback asks for: COPY of a texture, or of
\* none, and COLOR, which reads no texture.
ScopeDraws ==
  {<<1, source>> : source \in {0} \cup LoadedTextures} \cup {<<2, 0>>}

\* What a call does once its callback has returned: use() nothing, draw()
\* the uniforms, the attributes and the draw call.
scopeBody(m, frame) ==
  IF frame.kind \in {"use", "buffer"} THEN m
  ELSE drawCall(
         applyAttributes(
           applyUniforms(m, DrawDefinitions[frame.object],
                         Props(frame.source, Green, 0, <<0, 0>>)),
           DrawDefinitions[frame.object],
           Props(frame.source, Green, 0, <<0, 0>>)),
         DrawDefinitions[frame.object])

\* The finally block of the call of a frame.
scopeLeave(m, frame) ==
  CASE frame.kind = "use" ->
         FramebufferLeave(m, frame.previous, frame.previousViewport)
    [] frame.kind = "buffer" -> BufferLeave(m, frame.object, frame.previous)
    [] OTHER ->
         withProgramLeave(
           m, m.programs[DrawDefinitions[frame.object].name].handle,
           frame.previous)

\* The frame of the call that ended, and what it was.
Left(frame) == [kind |-> frame.kind, object |-> frame.object]

\* The callback of the innermost call returns: the call runs to its end,
\* or to a throw of its own.
ScopeReturn ==
  /\ scopes.error = ""
  /\ scopes.stack # << >>
  /\ \E ran \in { scopeLeave(scopeBody(Machine, Innermost), Innermost) } :
       /\ Commit(Untraced(ran))
       /\ scopes' = [stack |-> SubSeq(scopes.stack, 1, Len(scopes.stack) - 1),
                     error |-> ran.error, left |-> Left(Innermost)]
  /\ UNCHANGED <<operations, render, direct, pipeline, clone, lutCommand>>

\* The callback of the innermost call throws.
ScopeThrow ==
  /\ scopes.error = ""
  /\ scopes.stack # << >>
  /\ Commit(Untraced(scopeLeave(Machine, Innermost)))
  /\ scopes' = [stack |-> SubSeq(scopes.stack, 1, Len(scopes.stack) - 1),
                error |-> "thrown by the callback", left |-> Left(Innermost)]
  /\ UNCHANGED <<operations, render, direct, pipeline, clone, lutCommand>>

\* An error thrown inside the callback of a call passes through the call.
ScopeUnwind ==
  /\ scopes.error # ""
  /\ scopes.stack # << >>
  /\ Commit(Untraced(scopeLeave(Machine, Innermost)))
  /\ scopes' = [scopes EXCEPT
                  !.stack = SubSeq(@, 1, Len(@) - 1),
                  !.left = Left(Innermost)]
  /\ UNCHANGED <<operations, render, direct, pipeline, clone, lutCommand>>

\* The error has left the outermost call: the caller has it.
ScopeCaught ==
  /\ scopes.error # ""
  /\ scopes.stack = << >>
  /\ scopes' = [scopes EXCEPT !.error = ""]
  /\ UNCHANGED <<operations, textures, framebuffers, buffers, programs,
                 canvas, gl, trace, render, direct, pipeline, clone,
                 lutCommand>>

NextScopes ==
  \/ scopes.stack = << >> /\ scopes.error = "" /\ RendererTexture(1)
  \/ \E texture \in {0} \cup LoadedTextures :
        /\ scopes.stack = << >> /\ scopes.error = ""
        /\ LoadedTextures # {}
        /\ texture = 0 \/ framebuffers # << >>
        /\ ResourceFramebuffer(texture)
  \/ \E f \in 1 .. Len(framebuffers) :
        framebuffers[f].ownsTexture /\ ScopeResize(f)
  \/ \E f \in 1 .. Len(framebuffers) : UseEnter(f)
  \/ \E draw \in ScopeDraws : DrawEnter(draw[1], draw[2])
  \/ ScopeReturn
  \/ ScopeThrow
  \/ ScopeUnwind
  \/ ScopeCaught

\* renderer.buffer({target}): two array buffers, then two element buffers
ScopeBuffer ==
  /\ scopes.stack = << >> /\ scopes.error = ""
  /\ Len(buffers) < 4
  /\ Commit(Untraced(BufferNew(Machine,
                               IF Len(buffers) < 2 THEN "array" ELSE "element",
                               "static", Quad)))
  /\ UNCHANGED <<operations, render, direct, pipeline, clone, scopes,
                 lutCommand>>

\* buffer.use(fn), up to the call of fn
BufferUseEnter(b) ==
  /\ scopes.error = ""
  /\ Len(scopes.stack) < MaxDepth
  /\ Commit(Untraced(BufferEnter(Machine, b)))
  /\ scopes' = [scopes EXCEPT !.stack =
                  Append(@, ScopeFrame("buffer", b, 0,
                                       gl.bufferBinding[buffers[b].target],
                                       NoViewport, NoViewport))]
  /\ UNCHANGED <<operations, render, direct, pipeline, clone, lutCommand>>

NextBuffers ==
  \/ ScopeBuffer
  \/ \E b \in 1 .. Len(buffers) : BufferUseEnter(b)
  \/ ScopeReturn
  \/ ScopeThrow
  \/ ScopeUnwind
  \/ ScopeCaught

SpecBuffers == Init /\ [][NextBuffers]_vars

\* The caller creates its resources in one order: the image texture, a
\* framebuffer with a texture of its own, a framebuffer on the image texture.
SpecScopes == Init /\ [][NextScopes]_vars

(* -------------------------- PipelineOperation -------------------------- *)
\* A PipelineOperation built by a caller and run on a context of the
\* caller's: operations is its list, pipeline its private src and dst.
PipelineItems ==
  {CopyOperation(t) : t \in LoadedTextures}
    \cup {ColorOperation(c) : c \in Colors}
    \cup {BlurOperation(0, <<0, 1>>)}
    \cup {ResizeOperation(ResizeParams(TRUE, 4, FALSE, 0))}

ThePipeline == [kind |-> "pipeline"]

\* PipelineOperation.add
PipelineAdd(item) ==
  /\ pipeline.pc = "idle"
  /\ Len(operations) < MaxOps
  /\ operations' = Append(operations, item)
  /\ UNCHANGED <<textures, framebuffers, buffers, programs, canvas, gl,
                 trace, render, direct, pipeline, clone, scopes, lutCommand>>

\* if (!this.src) this.src = ctx.gl.framebuffer({width, height}), and the
\* same for this.dst: f is the field's value, 0 when it is not set.
pipelineAcquire(m, f, ctx) ==
  LET size == FramebufferSize(m, ctx.target)
  IN  IF f # 0 \/ ~Ok(m) THEN [m |-> m, f |-> f]
      ELSE LET made == FramebufferNew(m, size.width, size.height, 0,
                                      "pipeline")
           IN  [m |-> made,
                f |-> IF Ok(made) THEN Len(m.framebuffers) + 1 ELSE 0]

\* One iteration of the loop of PipelineOperation.run: run the item with
\* source this.src.texture and target this.dst, then exchange the two.
pipelineIteration(fr, ops) ==
  LET ran == renderRun(fr, ops)
  IN  IF Ok(ran.m) THEN [swap(ran) EXCEPT !.i = fr.i + 1] ELSE ran

\* The end of PipelineOperation.run: copy this.src into ctx.target.
pipelineCopy(fr, ctx) ==
  LET source == fr.m.framebuffers[fr.src].texture
      looked == RendererProgram(FramebufferEnter(fr.m, ctx.target), COPY)
  IN  [fr EXCEPT !.m =
        FramebufferUse(fr.m, ctx.target,
          ProgramDraw(looked, COPY, Props(source, Zero4, 0, <<0, 0>>)))]

\* The entry of PipelineOperation.run(ctx): the two framebuffers are
\* created on the first run and kept.
pipelineEntry(m, pipe, ctx) ==
  LET first == pipelineAcquire(m, pipe.src, ctx)
      second == pipelineAcquire(first.m, pipe.dst, ctx)
  IN  Frame(second.m, first.f, second.f, 1)

\* The fields and the position of the pipeline after a step of run() that
\* left frame fr: run() goes on, or it is over (returned or threw).
PipelinePosition(fr, over) ==
  [pipeline EXCEPT !.src = fr.src, !.dst = fr.dst, !.i = fr.i,
                   !.pc = IF over \/ ~Ok(fr.m) THEN "idle" ELSE "running"]

\* The caller's record of a run that is over.
PipelineRecord(fr, over) ==
  IF over \/ ~Ok(fr.m)
  THEN [runs |-> direct.runs + 1, operation |-> ThePipeline,
        source |-> pipeline.source, target |-> pipeline.target,
        error |-> fr.m.error]
  ELSE direct

PipelineFrame == Frame(Machine, pipeline.src, pipeline.dst, pipeline.i)

\* pipeline.run({gl, source, target}) by the caller, on a framebuffer of
\* the caller's; source = 0: no source.
PipelineBegin(source, target) ==
  /\ pipeline.pc = "idle"
  /\ direct.runs < MaxRuns
  /\ framebuffers[target].owner = "caller"
  /\ LET fr == pipelineEntry(Fresh, pipeline, Context(source, target))
     IN  /\ Commit(fr.m)
         /\ pipeline' = [PipelinePosition(fr, FALSE)
                           EXCEPT !.source = source, !.target = target]
         /\ direct' = IF Ok(fr.m) THEN direct
                      ELSE [runs |-> direct.runs + 1,
                            operation |-> ThePipeline, source |-> source,
                            target |-> target, error |-> fr.m.error]
  /\ UNCHANGED <<operations, render, clone, scopes, lutCommand>>

PipelineStep ==
  /\ pipeline.pc = "running"
  /\ pipeline.i <= Len(operations)
  /\ \E fr \in { pipelineIteration(PipelineFrame, operations) } :
         /\ Commit(fr.m)
         /\ pipeline' = PipelinePosition(fr, FALSE)
         /\ direct' = PipelineRecord(fr, FALSE)
  /\ UNCHANGED <<operations, render, clone, scopes, lutCommand>>

PipelineEnd ==
  /\ pipeline.pc = "running"
  /\ pipeline.i > Len(operations)
  /\ \E fr \in { pipelineCopy(PipelineFrame,
                              Context(pipeline.source, pipeline.target)) } :
         /\ Commit(fr.m)
         /\ pipeline' = PipelinePosition(fr, TRUE)
         /\ direct' = PipelineRecord(fr, TRUE)
  /\ UNCHANGED <<operations, render, clone, scopes, lutCommand>>

NextPipeline ==
  \/ \E k \in 1 .. Len(Images) : RendererTexture(k)
  \/ CallerFramebuffer
  \/ \E item \in PipelineItems : PipelineAdd(item)
  \/ \E source \in {0} \cup LoadedTextures,
        target \in 1 .. Len(framebuffers) : PipelineBegin(source, target)
  \/ PipelineStep
  \/ PipelineEnd

SpecPipeline == Init /\ [][NextPipeline]_vars

(* --------------------- PipelineOperation.dispose ----------------------- *)
MaxDisposes == 2

\* this.src?.dispose() and this.dst?.dispose(): f is the field's value.
pipelineRelease(m, f) == IF f = 0 THEN m ELSE FramebufferDispose(m, f)

\* PipelineOperation.dispose(): both framebuffers are disposed, the fields
\* src and dst keep them.
pipelineDispose(m, pipe) ==
  [m |-> pipelineRelease(pipelineRelease(m, pipe.src), pipe.dst),
   src |-> pipe.src, dst |-> pipe.dst]

\* pipeline.dispose() by the caller, between two runs
PipelineDispose ==
  /\ pipeline.pc = "idle"
  /\ pipeline.disposes < MaxDisposes
  /\ \E done \in { pipelineDispose(Fresh, pipeline) } :
       /\ Commit(done.m)
       /\ pipeline' = [pipeline EXCEPT !.src = done.src, !.dst = done.dst,
                                       !.disposes = @ + 1]
  /\ UNCHANGED <<operations, render, direct, clone, scopes, lutCommand>>

\* The items of a pipeline that is run, disposed and run again.
DisposedItems ==
  {CopyOperation(t) : t \in LoadedTextures} \cup {ColorOperation(Green)}

NextDisposal ==
  \/ RendererTexture(1)
  \/ CallerFramebuffer
  \/ \E item \in DisposedItems : PipelineAdd(item)
  \/ \E source \in {0} \cup LoadedTextures,
        target \in 1 .. Len(framebuffers) : PipelineBegin(source, target)
  \/ PipelineStep
  \/ PipelineEnd
  \/ PipelineDispose

SpecDisposal == Init /\ [][NextDisposal]_vars

(* ------------------------------- claims -------------------------------- *)
\* The runs of operations recorded in the trace, in the order issued.
Runs == SelectSeq(trace, LAMBDA e : e.call = "run")

\* The positions of the calls of one kind in the trace.
Calls(name) == {k \in 1 .. Len(trace) : trace[k].call = name}

\* The draws whose output went to the canvas (default framebuffer bound).
CanvasDraws == {k \in Calls("drawArrays") : trace[k].framebuffer = 0}

\* C1: while render() runs, the operations run so far are the first
\* operations of the list, in list order and once each; the first runs with
\* the texture of the first framebuffer render() created as source and the
\* second framebuffer as target; every later run reads the texture of the
\* framebuffer the previous run targeted and targets the framebuffer the
\* previous run read; after a run, drawn or not, src is the framebuffer
\* that run targeted.
C1_RunsInOrderPingPong ==
  render.pc = "rendering" =>
    /\ render.i <= Len(operations) + 1
    /\ Len(Runs) = render.i - 1
    /\ \A k \in 1 .. Len(Runs) :
         /\ Runs[k].index = k
         /\ k = 1 =>
              /\ Runs[k].source
                   = framebuffers[Len(framebuffers) - 1].texture
              /\ Runs[k].target = Len(framebuffers)
         /\ k > 1 =>
              /\ Runs[k].source = framebuffers[Runs[k - 1].target].texture
              /\ framebuffers[Runs[k].target].texture = Runs[k - 1].source
    /\ Len(Runs) > 0 =>
         /\ render.src = Runs[Len(Runs)].target
         /\ framebuffers[render.dst].texture = Runs[Len(Runs)].source

\* C1 witness: a render has run a list of three operations to its end, one
\* of them a blur of radius 0, which draws nothing.
C1_Witness ==
  /\ render.pc = "rendering"
  /\ Len(operations) = 3
  /\ render.i = 4
  /\ Len(Runs) = 3
  /\ \E k \in 1 .. 3 : operations[k] = BlurOperation(0, <<0, 1>>)

\* C2: once render() has presented, its trace holds exactly one draw to
\* the canvas; that draw is a COPY of the texture of src, the framebuffer
\* the last operation targeted; it is the last draw, and it comes after a
\* resize of the canvas to the size of src, which comes after every run of
\* an operation; the canvas has that size (as integers: the size of the
\* storage of the texture).
C2_ResizeThenOneCopyToCanvas ==
  render.pc = "presented" =>
    LET tex == framebuffers[render.src].texture
    IN  /\ Cardinality(CanvasDraws) = 1
        /\ Len(Runs) > 0 => render.src = Runs[Len(Runs)].target
        /\ \E r \in Calls("resize"), d \in CanvasDraws :
             /\ r < d
             /\ \A k \in Calls("run") : k < r
             /\ \A k \in Calls("resize") : k = r
             /\ \A k \in Calls("drawArrays") : k <= d
             /\ trace[r].width = textures[tex].width
             /\ trace[r].height = textures[tex].height
             /\ trace[d].program = "COPY"
             /\ trace[d].source = tex
             /\ trace[d].viewport = <<0, 0, canvas.width, canvas.height>>
        /\ canvas.width = ToLong(textures[tex].width)
        /\ canvas.height = ToLong(textures[tex].height)
        /\ <<canvas.width, canvas.height>> = textures[tex].storage

\* C2 witness: a render of three operations has presented on a canvas
\* whose size it changed.
C2_Witness ==
  /\ render.pc = "presented"
  /\ Len(Runs) = 3
  /\ canvas.width # DefaultCanvas.width
  /\ Cardinality(CanvasDraws) = 1

\* The list loadImage builds from decoded image k and nothing else: a
\* resize to the size of the image, then a copy of its texture.
Loaded(k) ==
  \E t \in LoadedTextures :
    /\ textures[t].data = ImageData(k)
    /\ operations =
         <<ResizeOperation(ResizeParams(TRUE, Images[k].width,
                                        TRUE, Images[k].height)),
           CopyOperation(t)>>

\* An image on the canvas.
Shown(k) ==
  [width |-> Images[k].width, height |-> Images[k].height,
   px |-> Images[k].px, fx |-> NoFx]

\* C3 on SharpGPU, where the source image is itself an entry of the list:
\* a render of a pipeline to which no operation was added after its source
\* image was loaded presents the source unchanged: the canvas gets the size
\* of the image and the texels of the image, with no pass applied.
C3_NoOperationPresentsSource ==
  [][\A k \in 1 .. Len(Images) :
       (RenderPresent /\ Loaded(k)) => canvas' = Shown(k)]_vars

\* The 3x2 image, loaded and rendered with no operation added, is on the
\* canvas.
C3_LoadedShown ==
  /\ render.pc = "presented"
  /\ Loaded(2)
  /\ Len(Runs) = 2
  /\ canvas = Shown(2)

\* The indices of the operations run by the render whose trace is t.
RunIndices(t) ==
  LET runs == SelectSeq(t, LAMBDA e : e.call = "run")
  IN  [k \in 1 .. Len(runs) |-> runs[k].index]

\* C4: every render, the first and the ones after it alike: no step of a
\* render changes the operation list; a render starts with no operation
\* run, whatever the renders before it did, and the render that presents
\* has run every operation of the list once, in list order, and ends with
\* the draw to the canvas.
C4_RenderReentrant ==
  [][/\ (RenderBegin \/ RenderStep \/ RenderPresent)
          => operations' = operations
     /\ RenderBegin => RunIndices(trace') = << >>
     /\ RenderPresent =>
          /\ render'.pc = "presented"
          /\ render'.count = render.count + 1
          /\ RunIndices(trace') = [k \in 1 .. Len(operations) |-> k]
          /\ trace'[Len(trace')].call = "drawArrays"
          /\ trace'[Len(trace')].framebuffer = 0]_vars

\* C4 witness: the second render of a list of three operations presented.
C4_Witness ==
  /\ render.count = 2
  /\ render.pc = "presented"
  /\ Len(operations) = 3
  /\ RunIndices(trace) = <<1, 2, 3>>

\* The framebuffers render() created.
RenderFramebuffers ==
  {f \in 1 .. Len(framebuffers) : framebuffers[f].owner = "render"}

\* C5: the engine creates at most two ping-pong framebuffers, whatever the
\* number of operations and of renders.
C5_AtMostTwoFramebuffers == Cardinality(RenderFramebuffers) <= 2

\* The image a texture holds: its size and its content.
ImageOf(t) ==
  [width |-> textures[t].width, height |-> textures[t].height,
   px |-> textures[t].px, fx |-> textures[t].fx]

\* C3 as stated, on PipelineOperation: a run of a pipeline whose operation
\* list is empty, on a context with a source, leaves in the target the
\* image of the source, at the size of the source.
C3_EmptyListPresentsSource ==
  (/\ direct.runs > 0
   /\ direct.operation = ThePipeline
   /\ direct.error = ""
   /\ direct.source # 0
   /\ pipeline.pc = "idle"
   /\ operations = << >>)
    => ImageOf(framebuffers[direct.target].texture) = ImageOf(direct.source)

\* C6: a run of a BlurOperation of radius 0, with or without a source in
\* the context, issues no call (no program lookup, no framebuffer bind, no
\* draw), raises no error and leaves every GPU object and the bind state as
\* they were.
C6_BlurZeroIssuesNothing ==
  [][(/\ direct'.runs = direct.runs + 1
      /\ direct'.operation.kind = "blur"
      /\ direct'.operation.radius = 0)
       => /\ trace' = << >>
          /\ direct'.error = ""
          /\ UNCHANGED <<textures, framebuffers, buffers, programs, canvas,
                         gl>>]_vars

\* C6 witness: a blur of radius 0 was run on a context with no source.
C6_Witness ==
  /\ direct.runs > 0
  /\ direct.operation = BlurOperation(0, <<1, 0>>)
  /\ direct.source = 0
  /\ direct.error = ""
  /\ trace = << >>

\* What a render of the list ops, started in the current state, presents:
\* the canvas, or the error it throws.
Presented(ops) ==
  LET fr == renderAll(Fresh, ops)
  IN  IF Ok(fr.m) THEN [canvas |-> fr.m.canvas, error |-> ""]
      ELSE [canvas |-> canvas, error |-> fr.m.error]

\* The list ops without its j-th operation.
Without(ops, j) == SubSeq(ops, 1, j - 1) \o SubSeq(ops, j + 1, Len(ops))

\* C7: a pipeline that holds a BlurOperation of radius 0 presents the same
\* image as the same pipeline with that operation removed.
C7_BlurZeroIsIdentity ==
  Callable =>
    \A j \in 1 .. Len(operations) :
      (operations[j].kind = "blur" /\ operations[j].radius = 0)
        => Presented(operations) = Presented(Without(operations, j))

\* C8: SharpGPU.blur(radius) leaves the list as it was when radius <= 0;
\* otherwise it appends two BlurOperations of that radius, the first of
\* direction [1, 0], the second of direction [0, 1], and nothing else.
C8_BlurFiltersNoOp ==
  [][\A radius \in BlurInputs :
       Blur(radius) =>
         operations' =
           IF radius <= 0 THEN operations
           ELSE operations \o <<BlurOperation(radius, <<1, 0>>),
                                BlurOperation(radius, <<0, 1>>)>>]_vars

\* C8 witness: the list ends with the two passes blur(2) appended.
C8_Witness ==
  /\ Len(operations) >= 2
  /\ operations[Len(operations) - 1] = BlurOperation(2, <<1, 0>>)
  /\ operations[Len(operations)] = BlurOperation(2, <<0, 1>>)

\* The size a resize of a target of size (W, H) gives: both dimensions
\* given -> (w, h); only the width -> (w, w*H/W); only the height ->
\* (h*W/H, h); neither -> (W, H).  A dimension the parameters hold counts
\* as given when it is not 0, and also when it is 0 if zeroGiven.
SizeRule(size, p, zeroGiven) ==
  LET w == p.hasWidth /\ (zeroGiven \/ p.width # 0)
      h == p.hasHeight /\ (zeroGiven \/ p.height # 0)
  IN  IF w /\ h THEN [width |-> R(p.width), height |-> R(p.height)]
      ELSE IF w
      THEN [width |-> R(p.width),
            height |-> RDiv(RMul(R(p.width), size.height), size.width)]
      ELSE IF h
      THEN [width |-> RDiv(RMul(R(p.height), size.width), size.height),
            height |-> R(p.height)]
      ELSE size

\* The size of framebuffer f after the step.
SizeAfter(f) ==
  [width |-> textures'[framebuffers[f].texture].width,
   height |-> textures'[framebuffers[f].texture].height]

\* The step is a run of operation.run(ctx) by the caller; direct' holds
\* the operation and the context of the run.
Ran == direct'.runs = direct.runs + 1

\* A run of a ResizeOperation that did not stop at the resize of the
\* target gives the target the size SizeRule gives for the size before.
ResizeFollows(zeroGiven) ==
  (/\ Ran
   /\ direct'.operation.kind = "resize"
   /\ direct'.error # "Texture width and height must be positive")
    => SizeAfter(direct'.target)
         = SizeRule(FramebufferSize(Machine, direct'.target),
                    direct'.operation.params, zeroGiven)

\* C9 as stated: a dimension is given when the parameters hold it.
C9_ResizeComputesSize == [][ResizeFollows(TRUE)]_vars

\* C9 amended: a dimension is given when the parameters hold it and it is
\* not 0; a width or height of 0 counts as not given.
C9_ResizeComputesSizeNonZero == [][ResizeFollows(FALSE)]_vars

\* C9 witness: Resize(width = 4), run first on the 2x2 target, made it 4x4.
C9_Witness ==
  /\ direct.runs = 1
  /\ direct.operation = ResizeOperation(ResizeParams(TRUE, 4, FALSE, 0))
  /\ direct.error = ""
  /\ FramebufferSize(Machine, direct.target) = [width |-> R(4), height |-> R(4)]

\* C10: after the draw of a ColorOperation every texel of the target is
\* the colour of the operation, whatever the target held before.
C10_ColorOverwritesTarget ==
  (/\ direct.runs > 0
   /\ direct.operation.kind = "color"
   /\ direct.error = "")
    => textures[framebuffers[direct.target].texture].px
         = direct.operation.color

\* The grey a saturation of 0 leaves of the texel px: the HSL lightness
\* (max + min) / 2 on the three colour channels, alpha as it was.
LightnessGrey(px, halfUp) ==
  LET l == ToByte(Frac(Max(Max(px[1], px[2]), px[3])
                         + Min(Min(px[1], px[2]), px[3]), 510), halfUp)
  IN  <<l, l, l, px[4]>>

\* render() has presented the pipeline [Resize, Copy(image), grayscale]
\* of SharpGPU.from(image).grayscale().
GrayscalePresented ==
  /\ render.pc = "presented"
  /\ Len(Runs) = 3
  /\ Len(operations) = 3
  /\ operations[1].kind = "resize"
  /\ operations[2].kind = "copy"
  /\ operations[3] = ModulateOperation(grayscale)

\* C11 as stated: the grayscale of a solid red image is the grey of the
\* Rec.709 luminance of red, 0.2126 (byte 54), with alpha 1.
C11_GrayscaleIsRec709Luminance ==
  (GrayscalePresented /\ textures[operations[2].source].px = Red)
    => canvas.px = <<54, 54, 54, 255>>

\* C11: the grayscale of a solid image is, at every pixel, the grey
\* r = g = b of the HSL lightness (max + min) / 2 of the source colour (0.5
\* for red), with the alpha of the source.
C11_GrayscaleIsLightness ==
  GrayscalePresented
    => canvas.px \in {LightnessGrey(textures[operations[2].source].px, h) :
                        h \in BOOLEAN}

C11_Witness ==
  /\ GrayscalePresented
  /\ textures[operations[2].source].px = Red
  /\ canvas.px[1] \in {127, 128}
\* The step is a call of kind k on a resource the caller holds.
ResourceCall(k) ==
  /\ direct'.runs = direct.runs + 1
  /\ direct'.operation.kind \in k

\* The texture a resize call works on, and the calls the step issued.
ResizedTexture ==
  IF direct'.operation.kind = "texture.resize" THEN direct'.operation.object
  ELSE framebuffers[direct'.operation.object].texture

NoUpload == \A i \in DOMAIN trace' : trace'[i].call # "texImage2D"

\* C12: Texture.resize and Framebuffer.resize with a width or a height
\* <= 0 raise an error, issue no upload, and leave the recorded width and
\* height of every texture as they were.
C12_NonPositiveResizeThrows ==
  [][ ( /\ ResourceCall({"texture.resize", "framebuffer.resize"})
        /\ \/ RLeqZero(direct'.operation.size.width)
           \/ RLeqZero(direct'.operation.size.height) )
      => /\ direct'.error # ""
         /\ NoUpload
         /\ \A t \in DOMAIN textures :
              /\ textures'[t].width = textures[t].width
              /\ textures'[t].height = textures[t].height ]_vars

C12_Witness ==
  /\ direct.operation.kind = "framebuffer.resize"
  /\ RLeqZero(direct.operation.size.height)
  /\ direct.error = "Texture width and height must be positive"
  /\ \E i \in DOMAIN textures : textures[i].deletes = 0

\* C13 as stated: a resize to the size the texture already has issues no
\* upload.
C13_SameSizeResizeIssuesNoUpload ==
  [][ ( /\ ResourceCall({"texture.resize", "framebuffer.resize"})
        /\ direct'.operation.size.width = textures[ResizedTexture].width
        /\ direct'.operation.size.height = textures[ResizedTexture].height )
      => NoUpload ]_vars

\* C15: Framebuffer.dispose deletes the framebuffer handle, and disposes
\* the attached texture when the framebuffer created it (its config had no
\* texture) and only then: a texture the caller supplied is left alone.
C15_DisposeOwnedTextureOnly ==
  [][ ResourceCall({"framebuffer.dispose"})
      => LET f == direct'.operation.object
             attached == framebuffers[f].texture
         IN  /\ framebuffers'[f].deletes = framebuffers[f].deletes + 1
             /\ \A t \in DOMAIN textures :
                  textures'[t].deletes =
                    IF t = attached /\ framebuffers[f].config = 0
                    THEN textures[t].deletes + 1
                    ELSE textures[t].deletes ]_vars

C15_Witness ==
  /\ direct.operation.kind = "framebuffer.dispose"
  /\ LET f == direct.operation.object
     IN  /\ framebuffers[f].deletes = 1
         /\ framebuffers[f].config = framebuffers[f].texture
         /\ textures[framebuffers[f].texture].deletes = 0

\* C16 as stated: over any sequence of calls the delete call of a handle
\* (texture, buffer, framebuffer) is never issued more than once.
C16_DeleteIssuedAtMostOnce ==
  /\ \A t \in DOMAIN textures : textures[t].deletes <= 1
  /\ \A b \in DOMAIN buffers : buffers[b].deletes <= 1
  /\ \A f \in DOMAIN framebuffers : framebuffers[f].deletes <= 1
\* C14: clone() returns a pipeline with the same renderer and the same
\* operation objects, in the same order, in an operations array of its
\* own: an operation added to either pipeline leaves the array of the
\* other as it was.
C14_CloneSharesObjectsNotList ==
  [][ /\ (~clone.made /\ clone'.made)
         => /\ clone'.renderer = 1
            /\ CloneOperations' = operations
            /\ operations' = operations
      /\ (clone.made /\ clone'.made)
         => \/ operations' = operations
            \/ CloneOperations' = CloneOperations ]_vars

C14_Witness ==
  /\ clone.made
  /\ Len(operations) = 3
  /\ Len(CloneOperations) = 2
  /\ operations[1] = CloneOperations[1]
  /\ operations[2] # CloneOperations[2]
\* The createProgram calls the step issued.
Compiled == {i \in DOMAIN trace' : trace'[i].call = "createProgram"}

\* C17: the renderer caches programs by the identity of the definition
\* object.  A call of program() that returns gives the program cached for
\* that object without compiling, or, for an object not asked for before,
\* compiles once and caches a program distinct from every cached one, also
\* from that of another object with equal fields; cached programs stay.
C17_ProgramPerDefinitionObject ==
  [][ (ResourceCall({"renderer.program"}) /\ direct'.error = "")
      => LET n == direct'.operation.object
         IN  /\ n \in DOMAIN programs'
             /\ direct'.result = programs'[n].handle
             /\ \A k \in DOMAIN programs : programs'[k] = programs[k]
             /\ IF n \in DOMAIN programs
                THEN DOMAIN programs' = DOMAIN programs /\ Compiled = {}
                ELSE /\ DOMAIN programs' = DOMAIN programs \cup {n}
                     /\ \A k \in DOMAIN programs :
                          programs[k].handle # programs'[n].handle
                     /\ Cardinality(Compiled) = 1 ]_vars

C17_Witness ==
  /\ direct.operation.kind = "renderer.program"
  /\ {"custom", "twin"} \subseteq DOMAIN programs
  /\ programs["custom"].handle # programs["twin"].handle

\* The definition declares a uniform or an attribute that has no location.
Unresolved(def) ==
  \/ \E k \in DOMAIN def.uniforms :
       def.uniforms[k] \notin vertOf(def).active \cup fragOf(def).active
  \/ \E k \in DOMAIN attributesOf(def) :
       attributesOf(def)[k] \notin vertOf(def).active

\* C18: program() of a definition with a declared uniform or attribute
\* that does not resolve to a location raises an error: no program is
\* returned, none is cached.
C18_UnresolvedNameFails ==
  [][ ( /\ ResourceCall({"renderer.program"})
        /\ \E d \in ProgramInputs :
             d.name = direct'.operation.object /\ Unresolved(d) )
      => /\ direct'.error # ""
         /\ direct'.result = 0
         /\ programs' = programs ]_vars

C18_Witness ==
  /\ direct.operation.kind = "renderer.program"
  /\ direct.operation.object = "noAttribute"
  /\ direct.error = "Attribute not found"
  /\ "noAttribute" \notin DOMAIN programs

\* C19 as stated: when the construction of a program fails at a compile or
\* at the link, every shader object it created has been deleted.
C19_FailedBuildDeletesShaders ==
  [][ ( /\ ResourceCall({"renderer.program"})
        /\ direct'.error \in {"Shader compile failed",
                               "Program link failed"} )
      => \A i \in DOMAIN trace' :
           trace'[i].call = "createShader"
             => \E j \in DOMAIN trace' :
                  /\ j > i
                  /\ trace'[j].call = "deleteShader"
                  /\ trace'[j].shader = trace'[i].shader ]_vars
\* The operations that need a source texture.
RequiresSource(op) ==
  \/ op.kind \in {"resize", "linear", "gamma", "modulate"}
  \/ op.kind = "blur" /\ op.radius # 0

\* C20: a run of Resize, Linear, Gamma, Modulate or a Blur of radius # 0 on
\* a context without a source raises an error to the caller and issues no
\* draw call.
C20_NoSourceThrowsBeforeDraw ==
  [][ ( /\ direct'.runs = direct.runs + 1
        /\ direct'.source = 0
        /\ RequiresSource(direct'.operation) )
      => /\ direct'.error = "Source texture is required"
         /\ \A i \in DOMAIN trace' : trace'[i].call # "drawArrays" ]_vars

C20_Witness ==
  /\ direct.operation.kind = "linear"
  /\ direct.source = 0
  /\ direct.error = "Source texture is required"
  /\ trace # << >>
\* The calls of the presentation in the trace: the resize of the canvas and
\* the draws to the canvas.
Presentation == Calls("resize") \cup CanvasDraws

\* C21: the engine does not catch the error of an operation.  A step of
\* render() whose run (or whose resize of the next target) raises ends the
\* render with that error; and once a render has failed, its trace holds
\* no run of an operation after the one that raised, and neither the
\* resize of the canvas nor a draw to the canvas.
C21_ErrorStopsRender ==
  /\ [][RenderStep =>
         LET fr == renderIteration(CurrentFrame, operations)
         IN  ~Ok(fr.m) =>
               /\ render'.pc = "failed"
               /\ render'.error = fr.m.error]_vars
  /\ [](render.pc = "failed" =>
         /\ render.error # ""
         /\ \A k \in 1 .. Len(Runs) : Runs[k].index <= render.i
         /\ Presentation = {})

\* C21 witness: the second of three operations raised: the render failed
\* with its error after two runs, the third operation not run.
C21_Witness ==
  /\ render.pc = "failed"
  /\ Len(operations) = 3
  /\ render.i = 2
  /\ Len(Runs) = 2
  /\ render.error # ""
  /\ Presentation = {}

\* The latest call of the caller was this call on a texture.
TextureCall(kind) ==
  /\ direct.runs > 0
  /\ direct.operation.kind = kind

Positive(a) == ~RLeqZero(a)

\* The width and the height a constructor, an update or a resize is asked
\* to give texture t, in the state the call starts in.
Requested(call) ==
  IF call.kind = "texture.update"
  THEN [width |-> IF call.params.hasWidth THEN call.params.width
                  ELSE textures[call.object].width,
        height |-> IF call.params.hasHeight THEN call.params.height
                   ELSE textures[call.object].height]
  ELSE call.size

\* C22: every texture somebody holds has a positive width and a positive
\* height in every state; a constructor, an update or a resize asked for a
\* width or a height that is not positive throws, and leaves the sizes of
\* the textures held as they were.
C22_TextureSizePositive ==
  /\ [](\A t \in Held :
          Positive(textures[t].width) /\ Positive(textures[t].height))
  /\ [][(/\ direct'.runs = direct.runs + 1
          /\ \/ RLeqZero(Requested(direct'.operation).width)
             \/ RLeqZero(Requested(direct'.operation).height))
          => /\ direct'.error = "Texture width and height must be positive"
             /\ Held' = Held
             /\ \A t \in Held :
                  /\ textures'[t].width = textures[t].width
                  /\ textures'[t].height = textures[t].height]_vars

\* C22 witness: a constructor asked for a size that is not positive threw,
\* a second one returned a texture, and an update of that texture to a
\* size that is not positive threw: the texture has its size.
C22_Witness ==
  /\ Len(textures) = 2
  /\ Held = {2}
  /\ RLeqZero(textures[1].width) \/ RLeqZero(textures[1].height)
  /\ TextureCall("texture.update")
  /\ direct.operation.object = 2
  /\ direct.error = "Texture width and height must be positive"
  /\ Positive(textures[2].width) /\ Positive(textures[2].height)

\* C24 as stated: a resize that returns, to a size other than the size the
\* texture has, changes the width and the height, leaves the texture with
\* no pixel source whatever it held before, and reallocates the storage by
\* one upload of the raw-buffer form with the new size and a null payload.
C24_ResizeDropsData ==
  [][(/\ direct'.runs = direct.runs + 1
      /\ direct'.operation.kind = "texture.resize"
      /\ direct'.error = ""
      /\ direct'.operation.size
           # [width |-> textures[direct'.operation.object].width,
              height |-> textures[direct'.operation.object].height])
      => LET t == direct'.operation.object
             size == direct'.operation.size
         IN  /\ textures'[t].width = size.width
             /\ textures'[t].height = size.height
             /\ textures'[t].data = NoData
             /\ trace' = <<[call |-> "texImage2D", texture |-> t,
                            source |-> "none",
                            width |-> ToLong(size.width),
                            height |-> ToLong(size.height)]>>]_vars

\* C25: a constructor, an update or a resize of a texture, returning or
\* throwing, leaves the 2D texture binding of every unit, the active unit
\* and the flip-Y unpack flag as they were before the call, whatever was
\* bound (a texture or none) and whatever flipY the call uploads with.
C25_UpdateRestoresBinding ==
  [][(/\ direct'.runs = direct.runs + 1
      /\ direct'.operation.kind
           \in {"texture.new", "texture.update", "texture.resize"})
      => /\ gl'.textureBinding = gl.textureBinding
         /\ gl'.activeTexture = gl.activeTexture
         /\ gl'.unpackFlipY = gl.unpackFlipY]_vars

\* C25 witness: with another texture bound to the active unit 1 and the
\* flag off, update({flipY: true}) of a texture returned: the other
\* texture is bound, the flag is off, the texture is flipped.
C25_Witness ==
  /\ TextureCall("texture.update")
  /\ direct.error = ""
  /\ direct.operation.params.hasFlipY /\ direct.operation.params.flipY
  /\ textures[direct.operation.object].flipY
  /\ gl.activeTexture = 1
  /\ gl.textureBinding[1] \in Held \ {direct.operation.object}
  /\ gl.textureBinding[0] = 0
  /\ ~gl.unpackFlipY

\* C23: in a run of a ResizeOperation that returns, the storage of the
\* target's texture is allocated at the new size by one upload, the one
\* draw of the run comes after that upload, it is a COPY into the target,
\* and its viewport is (0, 0, w, h) for the new size (w, h) of the
\* target, as integers.
C23_ResizeBeforeDraw ==
  [][(/\ direct'.runs = direct.runs + 1
      /\ direct'.operation.kind = "resize"
      /\ direct'.error = "")
      => LET f == direct'.target
             tex == framebuffers[f].texture
             w == ToLong(textures'[tex].width)
             h == ToLong(textures'[tex].height)
             uploads == {k \in DOMAIN trace' : trace'[k].call = "texImage2D"}
             draws == {k \in DOMAIN trace' : trace'[k].call = "drawArrays"}
         IN  /\ Cardinality(uploads) = 1
             /\ Cardinality(draws) = 1
             /\ \A u \in uploads, d \in draws :
                  /\ u < d
                  /\ trace'[u].texture = tex
                  /\ trace'[u].width = w /\ trace'[u].height = h
                  /\ trace'[d].program = "COPY"
                  /\ trace'[d].framebuffer = f
                  /\ trace'[d].viewport = <<0, 0, w, h>>
             /\ textures'[tex].storage = <<w, h>>]_vars

\* C23 witness: Resize(height = 4) ran on the 2x2 target with a source:
\* the copy was drawn with the viewport (0, 0, 4, 4).
C23_Witness ==
  /\ direct.runs > 0
  /\ direct.operation = ResizeOperation(ResizeParams(FALSE, 0, TRUE, 4))
  /\ direct.error = ""
  /\ textures[framebuffers[direct.target].texture].storage = <<4, 4>>
  /\ \E d \in DOMAIN trace :
       /\ trace[d].call = "drawArrays"
       /\ trace[d].viewport = <<0, 0, 4, 4>>
       /\ trace[d].source = direct.source

\* The calls of use() whose callback is running, outermost first.
UseFrames == SelectSeq(scopes.stack, LAMBDA frame : frame.kind = "use")

\* C26: GLFramebuffer.use(fn) restores the framebuffer binding and the
\* viewport when fn returns and when it throws, and uses nest: between the
\* steps of the callbacks the binding and the viewport are the ones the
\* innermost running use() set, and with no use() running they are the
\* default surface and the viewport of before the outermost use().  In
\* particular when a use of F2 inside a use of F1 ends, the binding is F1
\* and the viewport is the one F1 set.
C26_UseRestoresAndNests ==
  /\ [][scopes'.stack # scopes.stack /\ Len(scopes'.stack) < Len(scopes.stack)
          /\ Innermost.kind = "use" =>
            /\ gl'.framebufferBinding = Innermost.previous
            /\ gl'.viewport = Innermost.previousViewport]_vars
  /\ [](IF UseFrames = << >>
         THEN /\ gl.framebufferBinding = 0
              /\ gl.viewport = <<0, 0, DefaultCanvas.width,
                                 DefaultCanvas.height>>
         ELSE /\ gl.framebufferBinding = UseFrames[Len(UseFrames)].object
              /\ gl.viewport = UseFrames[Len(UseFrames)].viewport)

\* A use of framebuffer 2 inside the use of framebuffer 1, resized to 4x1,
\* has ended with a throw that is still in flight; framebuffer 1 is bound
\* again, with its viewport.
C26_Witness ==
  /\ Len(scopes.stack) = 1
  /\ scopes.stack[1].kind = "use"
  /\ scopes.stack[1].object = 1
  /\ scopes.left = [kind |-> "use", object |-> 2]
  /\ scopes.error # ""
  /\ gl.framebufferBinding = 1
  /\ gl.viewport = <<0, 0, 4, 1>>

\* The calls of draw() whose uniform functions are running, outermost first.
DrawFrames == SelectSeq(scopes.stack, LAMBDA frame : frame.kind = "draw")

ProgramOf(frame) == programs[DrawDefinitions[frame.object].name].handle

CallerDrew ==
  /\ direct'.runs = direct.runs + 1
  /\ direct'.operation.kind = "program.draw"

Drawn(call) == IF call.operation.object = "mix" THEN mix ELSE mixReversed

TextureUniforms == {"source", "mask"}

\* The number of texture-valued uniforms declared before the k-th one.
RECURSIVE TexturesBefore(_, _)
TexturesBefore(def, k) ==
  IF k = 1 THEN 0
  ELSE TexturesBefore(def, k - 1)
         + (IF def.uniforms[k - 1] \in TextureUniforms THEN 1 ELSE 0)

\* C29: in every draw, the first one of a program and the later ones
\* alike, the k-th declared uniform, when its value is a texture, is
\* written the number of texture-valued uniforms declared before it, and
\* the texture is bound to the unit of that number: units 0, 1, ... in
\* declaration order, counted from 0 in each draw; a uniform with
\* another value is written that value and takes no unit.
C29_TextureUnitsInOrder ==
  [][CallerDrew /\ direct'.error = ""
     => LET def == Drawn(direct')
            props == direct'.operation.props
            written == programs'[def.name].uniformValues
        IN  \A k \in DOMAIN def.uniforms :
              LET name == def.uniforms[k]
              IN  IF name \in TextureUniforms
                  THEN /\ written[name] = TexturesBefore(def, k)
                       /\ gl'.textureBinding[TexturesBefore(def, k)]
                            = props[name]
                  ELSE written[name] = props[name]]_vars

\* A second or later draw, of the program that declares amount, mask,
\* source in this order, with texture 2 for mask and texture 1 for source:
\* mask has unit 0 and source unit 1.
C29_Witness ==
  /\ direct.runs >= 2
  /\ direct.operation.kind = "program.draw"
  /\ direct.operation.object = "mixReversed"
  /\ direct.error = ""
  /\ direct.operation.props.mask = 2
  /\ direct.operation.props.source = 1
  /\ programs["mixReversed"].uniformValues["mask"] = 0
  /\ programs["mixReversed"].uniformValues["source"] = 1
  /\ programs["mixReversed"].uniformValues["amount"] = R(1)
  /\ gl.textureBinding = (0 :> 2) @@ (1 :> 1)

\* The value the attribute cache of a program holds; 0 for none, as for a
\* program that does not exist yet.
Cached(ps, name) ==
  IF name \in DOMAIN ps THEN ps[name].attributeCache ELSE 0

\* C30: in a draw that gets as far as the attributes, the program leaves
\* the vertex-attribute pointer and its cache alone exactly when the
\* attribute object the draw resolves is the object in its cache for the
\* location; with any other object, one on the same buffer included, it
\* sets the pointer of the location to the object's buffer and puts the
\* object in the cache, the array-buffer binding being restored, unless
\* the buffer is no array buffer: then the draw throws with pointer and
\* cache as they were.
C30_AttributeCache ==
  [][CallerDrew /\ direct'.operation.props.source # 0
       /\ direct'.operation.props.mask # 0
     => LET name == direct'.operation.object
            value == direct'.operation.props.position
            buffer == CallerAttributes[value].buffer
        IN  /\ gl'.bufferBinding = gl.bufferBinding
            /\ IF Cached(programs, name) = value
               THEN /\ gl'.attribPointer = gl.attribPointer
                    /\ Cached(programs', name) = value
                    /\ direct'.error = ""
               ELSE IF buffers[buffer].target = "array"
               THEN /\ gl'.attribPointer[0] = buffer
                    /\ Cached(programs', name) = value
                    /\ direct'.error = ""
               ELSE /\ gl'.attribPointer = gl.attribPointer
                    /\ Cached(programs', name) = Cached(programs, name)
                    /\ direct'.error # ""]_vars

\* A draw that skipped: its attribute object is the one in the program's
\* cache, and the pointer of location 0 is still on the buffer that
\* another program's draw put there in between.
C30_Witness ==
  /\ direct.runs = 3
  /\ direct.operation.kind = "program.draw"
  /\ direct.error = ""
  /\ Cached(programs, direct.operation.object)
       = direct.operation.props.position
  /\ gl.attribPointer[0]
       # CallerAttributes[direct.operation.props.position].buffer

\* The draw calls of a trace.
DrawCalls(t) ==
  {k \in DOMAIN t : t[k].call \in {"drawArrays", "drawElements"}}

ElementDrawn(call) ==
  CASE call.operation.object = "indexed" -> indexed
    [] call.operation.object = "misindexed" -> misindexed
    [] call.operation.object = "partial" -> partial
    [] OTHER -> plain

\* C31: a draw that completes issues one draw call: an indexed one, with
\* the element buffer bound, if and only if the definition has an element
\* buffer, otherwise a non-indexed one over count vertices from offset.  A
\* draw whose element buffer is no index buffer throws, and a draw that
\* throws has issued no draw call.
C31_IndexedIffElements ==
  [][CallerDrew
     => LET def == ElementDrawn(direct')
            draws == DrawCalls(trace')
        IN  /\ direct'.error # "" => draws = {}
            /\ elementsOf(def) # 0
                 /\ buffers[elementsOf(def)].target # "element"
               => direct'.error # ""
            /\ direct'.error = ""
               => /\ Cardinality(draws) = 1
                  /\ \A d \in draws :
                       IF elementsOf(def) # 0
                       THEN /\ trace'[d].call = "drawElements"
                            /\ trace'[d].elements = elementsOf(def)
                            /\ trace'[d].count = countOf(def)
                            /\ trace'[d].offset = offsetOf(def)
                       ELSE /\ trace'[d].call = "drawArrays"
                            /\ trace'[d].first = offsetOf(def)
                            /\ trace'[d].count = countOf(def)]_vars

\* An indexed draw with buffer 3 bound as element buffer has completed.
C31_Witness ==
  /\ direct.runs > 0
  /\ direct.operation.kind = "program.draw"
  /\ direct.operation.object = "indexed"
  /\ direct.error = ""
  /\ \E d \in DrawCalls(trace) :
       trace[d].call = "drawElements" /\ trace[d].elements = 3

\* The buffer of the innermost running use() on a target, 0 for none.
InnermostOn(target) ==
  LET frames == SelectSeq(scopes.stack,
                          LAMBDA frame : /\ frame.kind = "buffer"
                                         /\ buffers[frame.object].target
                                              = target)
  IN  IF frames = << >> THEN 0 ELSE frames[Len(frames)].object

\* C32: GLBuffer.use(fn) binds the buffer to its target for fn, and when
\* the use ends, fn having returned or thrown, the binding of that target
\* is the buffer that was bound when use was called and the binding of
\* the other target is untouched; for array and for element buffers, also
\* nested: between the steps the binding of each target is the buffer of
\* the innermost running use on that target, none when there is none.
C32_BufferUseRestores ==
  /\ [][Len(scopes'.stack) < Len(scopes.stack) /\ Innermost.kind = "buffer"
          => LET target == buffers[Innermost.object].target
             IN  gl'.bufferBinding =
                   [gl.bufferBinding EXCEPT ![target] = Innermost.previous]]_vars
  /\ [](\A target \in {"array", "element"} :
          gl.bufferBinding[target] = InnermostOn(target))

\* The use of element buffer 4 inside the use of element buffer 3 has
\* ended with a throw: buffer 3 is the element binding again.
C32_Witness ==
  /\ Len(scopes.stack) = 1
  /\ scopes.stack[1].kind = "buffer" /\ scopes.stack[1].object = 3
  /\ scopes.left = [kind |-> "buffer", object |-> 4]
  /\ scopes.error # ""
  /\ gl.bufferBinding = [array |-> 0, element |-> 3]

\* C33: a draw of the LUT command fills the data and uploads the LUT
\* texture if and only if the LUT it is given is not the very object of the
\* latest upload; it then holds the curve of the object as it is now and
\* remembers the object.  Given the object of the latest upload it leaves
\* data and memo as they are, whatever the object holds by now; an object
\* with equal contents, or no object, is another object.
C33_LutKeyedByIdentity ==
  [][direct'.runs = direct.runs + 1 /\ direct'.operation.kind = "lut"
     => LET o == direct'.operation.object
            same == o # 0 /\ o = lutCommand.lastLut
        IN  /\ lutCommand'.uploaded = ~same
            /\ same => /\ lutCommand'.data = lutCommand.data
                       /\ lutCommand'.lastLut = lutCommand.lastLut
            /\ ~same /\ o # 0
                 => /\ lutCommand'.data = lutData(lutCommand.objects[o])
                    /\ lutCommand'.lastLut = o
            /\ o = 0 => /\ lutCommand'.data = [i \in 1 .. 256 |-> i - 1]
                        /\ lutCommand'.lastLut = Anonymous]_vars

\* A draw with the array of the latest upload, reversed in place since:
\* nothing was uploaded and the texture holds the curve of before.
C33_Witness ==
  /\ direct.runs > 1
  /\ direct.operation.kind = "lut"
  /\ direct.operation.object = 1
  /\ lutCommand.lastLut = 1
  /\ ~lutCommand.uploaded
  /\ lutCommand.objects[1].points = <<R(1), R(0)>>
  /\ lutCommand.data = [i \in 1 .. 256 |-> i - 1]

\* The bind state of the context: current program, framebuffer binding,
\* viewport, array and element buffer bindings, active texture unit and
\* the 2D texture bindings.
BindState(g) ==
  [program |-> g.program, framebufferBinding |-> g.framebufferBinding,
   viewport |-> g.viewport, bufferBinding |-> g.bufferBinding,
   activeTexture |-> g.activeTexture, textureBinding |-> g.textureBinding]

\* C34 as stated: a run of an operation that returns leaves the bind state
\* of the context as it found it.
C34_RunRestoresBindState ==
  [][direct'.runs = direct.runs + 1 /\ direct'.error = ""
     => BindState(gl') = BindState(gl)]_vars

\* C35: in a render no run of an operation is handed, as its source, the
\* texture attached to the framebuffer it is to draw into, and no draw into
\* a framebuffer samples the texture attached to that framebuffer, at any
\* place of the list.
C35_SourceIsNotTarget ==
  \A k \in 1 .. Len(trace) :
    /\ trace[k].call = "run"
         => trace[k].source # framebuffers[trace[k].target].texture
    /\ trace[k].call = "drawArrays" /\ trace[k].framebuffer # 0
         => trace[k].source # framebuffers[trace[k].framebuffer].texture

\* The third operation of a list has run, after two exchanges of the
\* framebuffers, and its draw sampled the source it was handed.
C35_Witness ==
  /\ render.pc = "rendering"
  /\ render.i = 4
  /\ \E r \in Calls("run"), d \in Calls("drawArrays") :
       /\ r < d
       /\ trace[r].index = 3
       /\ trace[r].source = framebuffers[render.dst].texture
       /\ trace[r].target = render.src
       /\ trace[d].framebuffer = trace[r].target
       /\ trace[d].source = trace[r].source

\* The size the framebuffers of the render were created with: that of the
\* first allocation the render recorded.
InitialSize ==
  LET u == CHOOSE u \in Calls("texImage2D") :
             \A k \in Calls("texImage2D") : u <= k
  IN  [width |-> R(trace[u].width), height |-> R(trace[u].height)]

\* The size after the first k operations of ops: each Resize computes a
\* new one from the size before it, the others keep it.
RECURSIVE RenderSize(_, _, _)
RenderSize(ops, k, initial) ==
  IF k = 0 THEN initial
  ELSE IF ops[k].kind = "resize"
       THEN computeSize(RenderSize(ops, k - 1, initial), ops[k].params)
       ELSE RenderSize(ops, k - 1, initial)

\* The run a recorded call belongs to: the last one recorded before it.
RunOf(d) ==
  CHOOSE r \in Calls("run") : r < d /\ \A k \in Calls("run") : k < d => k <= r

\* C36 as stated: before each run both framebuffers of the render have the
\* same size; every draw of an operation has as its viewport the size the
\* Resizes up to that operation computed; the canvas ends with the size the
\* last Resize computed, the initial size when there is none.
C36_SizesEqualLastResize ==
  /\ render.pc = "rendering"
       => FramebufferSize(Machine, render.src)
            = FramebufferSize(Machine, render.dst)
  /\ \A d \in Calls("drawArrays") :
       trace[d].framebuffer # 0
         => LET size == RenderSize(operations, trace[RunOf(d)].index,
                                   InitialSize)
            IN  /\ R(trace[d].viewport[3]) = size.width
                /\ R(trace[d].viewport[4]) = size.height
  /\ render.pc = "presented"
       => LET size == RenderSize(operations, Len(Runs), InitialSize)
          IN  /\ R(canvas.width) = size.width
              /\ R(canvas.height) = size.height

\* C36: before each run both framebuffers of the render have the same
\* size, the one the Resizes so far computed; every draw of an operation
\* has as its viewport that size with each dimension truncated to an
\* integer; the canvas ends with the truncated size the last Resize
\* computed, the initial size when there is none.
C36_SizesFollowLastResize ==
  /\ render.pc = "rendering"
       => /\ FramebufferSize(Machine, render.src)
               = FramebufferSize(Machine, render.dst)
          /\ FramebufferSize(Machine, render.src)
               = RenderSize(operations, Len(Runs), InitialSize)
  /\ \A d \in Calls("drawArrays") :
       trace[d].framebuffer # 0
         => LET size == RenderSize(operations, trace[RunOf(d)].index,
                                   InitialSize)
            IN  /\ trace[d].viewport[3] = ToLong(size.width)
                /\ trace[d].viewport[4] = ToLong(size.height)
  /\ render.pc = "presented"
       => LET size == RenderSize(operations, Len(Runs), InitialSize)
          IN  /\ canvas.width = ToLong(size.width)
              /\ canvas.height = ToLong(size.height)

\* A render of the 3x2 image followed by a Resize to width 4 has presented:
\* the Resize computed 4 by 8/3, the canvas is 4 by 2.
C36_Witness ==
  /\ render.pc = "presented"
  /\ Len(Runs) = 3
  /\ operations[3].kind = "resize"
  /\ RenderSize(operations, 3, InitialSize)
       = [width |-> R(4), height |-> Frac(8, 3)]
  /\ canvas.width = 4
  /\ canvas.height = 2

\* C37 as stated: when a program of a caller issues its draw call, the
\* vertex-attribute pointer of the location of its attribute is on the
\* buffer of the attribute object the draw resolved, whatever other
\* programs drew before on the context.
C37_DrawUsesOwnBuffer ==
  [][CallerDrew /\ direct'.error = ""
     => gl'.attribPointer[0]
          = CallerAttributes[direct'.operation.props.position].buffer]_vars

\* C38 as stated: a run of a ResizeOperation that throws, for want of a
\* source texture or because a computed dimension is not positive, leaves
\* the target framebuffer with the width and height it had.
C38_FailedResizeKeepsSize ==
  [][(/\ direct'.runs = direct.runs + 1
      /\ direct'.operation.kind = "resize"
      /\ direct'.error # "")
     => FramebufferSize([framebuffers |-> framebuffers',
                         textures |-> textures'], direct'.target)
          = FramebufferSize(Machine, direct'.target)]_vars

\* C39 as stated: the framebuffers a run of the pipeline binds and the
\* textures its draws sample have not been released by a dispose before,
\* and no framebuffer of the pipeline is released more than once.
C39_NoUseAfterDispose ==
  /\ \A k \in 1 .. Len(trace) :
       /\ trace[k].call = "bindFramebuffer" /\ trace[k].framebuffer # 0
            => framebuffers[trace[k].framebuffer].deletes = 0
       /\ trace[k].call = "drawArrays" /\ trace[k].source # 0
            => textures[trace[k].source].deletes = 0
  /\ \A f \in 1 .. Len(framebuffers) :
       framebuffers[f].owner = "pipeline" => framebuffers[f].deletes <= 1

====
